---- MODULE Spec2Model ----
(***************************************************************************)
(* Collateral vault and session escrow of origin-os-protocol.              *)
(*                                                                         *)
(* Every instruction is one atomic step.  A handler is an operator from    *)
(* the account state before the call and the call's inputs to a result     *)
(* [err, st]: err is "Ok" or the error the handler returns, st is the      *)
(* account state the handler has written when it returns.  An instruction  *)
(* that returns an error persists nothing (Commit).                        *)
(*                                                                         *)
(* Three specifications share the handlers:                                *)
(*   Spec        one session, plain or bid, and every instruction of the   *)
(*               session program; deposits and withdrawals of its provider *)
(*   SpecPermit  one plain session and the redemption of its permits       *)
(*   SpecVault   the vault called directly by an arbitrary signer and      *)
(*               through two plain sessions; the positions of two providers*)
(***************************************************************************)
EXTENDS Integers, Sequences, FiniteSets, TLC

\* ------------------------------------------------------------------------
\* Bounds of the model
\* ------------------------------------------------------------------------
MaxSlot == 4            \* the clock runs from slot 0 to MaxSlot
MaxOpenSlot == 0        \* sessions are opened at slots 0..MaxOpenSlot
MaxShortSlot == 2       \* the clock of the specifications without an SLA window
MaxPermits == 2         \* permits redeemed per session
MaxSlaPermits == 1      \* permits redeemed per session where the SLA is exercised
WordMax == 2000000000   \* largest value of the model's unsigned word

\* ------------------------------------------------------------------------
\* Keys, accounts
\* ------------------------------------------------------------------------
NoKey == "default"                       \* Pubkey::default()
Users == {"u1"}
Providers == {"p1", "p2"}
Outsiders == {"x"}
Verifiers == {"v"}
Keys == Users \cup Providers \cup Outsiders \cup Verifiers
Modes == {1}

\* A position is the PDA of (provider, mode_id); a session the PDA of
\* (user, session_nonce).
PosIds == Providers \X Modes
SessIds == {<<"u1", 0>>, <<"u1", 1>>}

Wallet(k) == <<"wallet", k>>
Escrow(s) == <<"escrow", s>>
Vault(p) == <<"vault", p>>
TokenAccounts ==
    {Wallet(k) : k \in Keys} \cup {Escrow(s) : s \in SessIds} \cup {Vault(p) : p \in PosIds}

Funds(u1, p1, p2) ==
    [k \in Keys |-> CASE k = "u1" -> u1
                     [] k = "p1" -> p1
                     [] k = "p2" -> p2
                     [] OTHER -> 0]

\* Amounts the callers of the model pass
DepositAmounts == {1000}
DirectAmounts == {750}
FundAmounts == {10000}
PermitAmounts == {1000, 10000}
SlaPermitAmounts == {1000}

\* ------------------------------------------------------------------------
\* Arithmetic of the unsigned word
\* ------------------------------------------------------------------------
Min(a, b) == IF a <= b THEN a ELSE b
Max(a, b) == IF a >= b THEN a ELSE b
saturating_sub(a, b) == IF a >= b THEN a - b ELSE 0
AddOverflows(a, b) == a > WordMax - b
MulOverflows(a, b) == b # 0 /\ a > WordMax \div b
saturating_add(a, b) == IF AddOverflows(a, b) THEN WordMax ELSE a + b
saturating_mul(a, b) == IF MulOverflows(a, b) THEN WordMax ELSE a * b
saturating_div(a, b) == a \div b

\* ------------------------------------------------------------------------
\* Results and the token program
\* ------------------------------------------------------------------------
Ok(st) == [err |-> "Ok", st |-> st]
Fail(e, st) == [err |-> e, st |-> st]

\* SPL token transfer: fails when the source holds less than amount.
token_transfer(st, from, to, amount) ==
    IF st.bal[from] < amount
    THEN Fail("InsufficientFunds", st)
    ELSE Ok([st EXCEPT !.bal = [@ EXCEPT ![from] = @ - amount, ![to] = @ + amount]])

\* ------------------------------------------------------------------------
\* collateral_vault
\* ------------------------------------------------------------------------
NoPosition == [provider |-> NoKey, mode_id |-> 0, total |-> 0, reserved |-> 0]

PositionExists(st, p) == st.pos[p].provider # NoKey

\* deposit: the position is the PDA of (signing provider, mode_id)
deposit(st, provider, mode_id, amount) ==
    LET p == <<provider, mode_id>>
        position == st.pos[p]
        is_new == position.total = 0 /\ position.provider = NoKey
        created == IF is_new
                   THEN [provider |-> provider, mode_id |-> mode_id, total |-> 0, reserved |-> 0]
                   ELSE position
    IN  IF ~(amount > 0) THEN Fail("ZeroAmount", st)
        ELSE IF AddOverflows(created.total, amount)
        THEN Fail("Overflow", [st EXCEPT !.pos[p] = created])
        ELSE token_transfer(
                [st EXCEPT !.pos[p] = [created EXCEPT !.total = @ + amount]],
                Wallet(provider), Vault(p), amount)

\* A withdrawal checked against the total alone
WithdrawIgnoresReserved(position, amount) == amount <= position.total

WithdrawFreeCheck(position, amount) ==
    amount <= saturating_sub(position.total, position.reserved)

\* A withdrawal that pays out and leaves the total as it was
withdraw_total_kept(st, p, signer, amount, dest) ==
    LET position == st.pos[p]
    IN  IF ~PositionExists(st, p) THEN Fail("AccountNotInitialized", st)
        ELSE IF position.provider # signer THEN Fail("WrongProvider", st)
        ELSE IF ~(amount > 0) THEN Fail("ZeroAmount", st)
        ELSE IF ~WithdrawFreeCheck(position, amount)
        THEN Fail("InsufficientFreeCollateral", st)
        ELSE token_transfer(st, Vault(p), dest, amount)

\* withdraw: has_one = provider; the destination token account is the caller's choice
withdraw(st, p, signer, amount, dest) ==
    LET position == st.pos[p]
    IN  IF ~PositionExists(st, p) THEN Fail("AccountNotInitialized", st)
        ELSE IF position.provider # signer THEN Fail("WrongProvider", st)
        ELSE IF ~(amount > 0) THEN Fail("ZeroAmount", st)
        ELSE IF ~WithdrawFreeCheck(position, amount)
        THEN Fail("InsufficientFreeCollateral", st)
        ELSE IF position.total < amount THEN Fail("Underflow", st)
        ELSE token_transfer(
                [st EXCEPT !.pos[p].total = @ - amount],
                Vault(p), dest, amount)

ReserveFreeCheck(position, amount_r) ==
    amount_r <= saturating_sub(position.total, position.reserved)

\* Accounts of reserve: an initialised position; `provider` is any signer,
\* it is compared with nothing.
ReserveAccounts(st, p, signer) ==
    IF ~PositionExists(st, p) THEN "AccountNotInitialized" ELSE "Ok"

\* A reservation that checks nothing against the free collateral
reserve_unchecked(st, p, signer, session, amount_r) ==
    IF ~PositionExists(st, p) THEN Fail("AccountNotInitialized", st)
    ELSE Ok([st EXCEPT !.pos[p].reserved = @ + amount_r,
                       !.outstanding[p] = @ + amount_r])

reserve(st, p, signer, session, amount_r) ==
    LET position == st.pos[p]
        acc == ReserveAccounts(st, p, signer)
    IN  IF acc # "Ok" THEN Fail(acc, st)
        ELSE IF ~ReserveFreeCheck(position, amount_r)
        THEN Fail("InsufficientFreeCollateral", st)
        ELSE IF AddOverflows(position.reserved, amount_r) THEN Fail("Overflow", st)
        ELSE IF ~(position.reserved + amount_r <= position.total)
        THEN Fail("ReservedExceedsTotal", [st EXCEPT !.pos[p].reserved = @ + amount_r])
        ELSE Ok([st EXCEPT !.pos[p].reserved = @ + amount_r,
                           !.outstanding[p] = @ + amount_r])

\* Accounts of release and slash_and_pay: an initialised position;
\* `session_authority` is any signer (a wallet key or a session PDA), it is
\* compared with nothing.
AuthorityAccounts(st, p, authority) ==
    IF ~PositionExists(st, p) THEN "AccountNotInitialized" ELSE "Ok"

release(st, p, authority, session, amount_r) ==
    LET position == st.pos[p]
        acc == AuthorityAccounts(st, p, authority)
    IN  IF acc # "Ok" THEN Fail(acc, st)
        ELSE IF ~(amount_r <= position.reserved) THEN Fail("ReleaseExceedsReserved", st)
        ELSE Ok([st EXCEPT !.pos[p].reserved = @ - amount_r,
                           !.outstanding[p] = @ - amount_r])

slash_and_pay(st, p, authority, session, payout_amount, dest) ==
    LET position == st.pos[p]
        acc == AuthorityAccounts(st, p, authority)
    IN  IF acc # "Ok" THEN Fail(acc, st)
        ELSE IF ~(payout_amount <= position.reserved) THEN Fail("PayoutExceedsReserved", st)
        ELSE IF position.total < payout_amount
        THEN Fail("Underflow", [st EXCEPT !.pos[p].reserved = @ - payout_amount])
        ELSE token_transfer(
                [st EXCEPT !.pos[p].reserved = @ - payout_amount,
                           !.pos[p].total = @ - payout_amount,
                           !.outstanding[p] = @ - payout_amount],
                Vault(p), dest, payout_amount)

\* ------------------------------------------------------------------------
\* pyth_helpers
\* ------------------------------------------------------------------------
unsigned_abs(x) == IF x < 0 THEN -x ELSE x

\* A confidence check that rejects a ratio equal to the ceiling
assert_conf_below(price, conf, max_conf_ratio_bps) ==
    IF price <= 0 THEN "InvalidPrice"
    ELSE IF ~((conf * 10000) \div unsigned_abs(price) < max_conf_ratio_bps)
    THEN "ConfidenceTooWide"
    ELSE "Ok"

\* price: i64, conf: u64, max_conf_ratio_bps: u16.  The product is computed
\* in 128 bits, where conf * 10000 never saturates; the divisor is not 0
\* once price > 0.
assert_conf(price, conf, max_conf_ratio_bps) ==
    IF price <= 0 THEN "InvalidPrice"
    ELSE LET conf_ratio_bps == (conf * 10000) \div unsigned_abs(price)
         IN  IF ~(conf_ratio_bps <= max_conf_ratio_bps) THEN "ConfidenceTooWide"
             ELSE "Ok"

\* ------------------------------------------------------------------------
\* session_escrow: constants, pure helpers
\* ------------------------------------------------------------------------
INSURANCE_A == 100
INSURANCE_B == 50
INSURANCE_MIN_BPS == 500
INSURANCE_CAP_BPS == 2000
BID_PREMIUM_WEIGHT == 50
BID_SLA_WEIGHT == 50
CR_BPS == 15000
BPS_DENOM == 10000
BITMAP_BITS == 1024

SlaFailureReasons == {"None", "Latency", "Bandwidth", "Both", "PrivacyMode"}

\* A coverage with the floor and no cap
coverage_without_cap(max_spend, price_per_chunk) ==
    LET term_a == saturating_div(saturating_mul(max_spend, INSURANCE_A), BPS_DENOM)
        term_b == saturating_div(saturating_mul(price_per_chunk, INSURANCE_B), BPS_DENOM)
        p_min == saturating_div(saturating_mul(max_spend, INSURANCE_MIN_BPS), BPS_DENOM)
    IN  Max(saturating_add(term_a, term_b), p_min)

compute_insurance_coverage(max_spend, price_per_chunk) ==
    LET term_a == saturating_div(saturating_mul(max_spend, INSURANCE_A), BPS_DENOM)
        term_b == saturating_div(saturating_mul(price_per_chunk, INSURANCE_B), BPS_DENOM)
        raw_coverage == saturating_add(term_a, term_b)
        p_min == saturating_div(saturating_mul(max_spend, INSURANCE_MIN_BPS), BPS_DENOM)
        p_cap == saturating_div(saturating_mul(max_spend, INSURANCE_CAP_BPS), BPS_DENOM)
    IN  Min(Max(raw_coverage, p_min), p_cap)

compute_bid_coverage(max_spend, premium_bps, latency_target_ms, bandwidth_min_chunks) ==
    LET premium_factor ==
            saturating_div(saturating_mul(premium_bps, BID_PREMIUM_WEIGHT), BPS_DENOM)
        latency_strictness ==
            IF latency_target_ms > 0 THEN saturating_div(10000, latency_target_ms) ELSE 100
        bandwidth_strictness == Min(bandwidth_min_chunks, 1000)
        sla_factor ==
            saturating_div(
                saturating_mul(saturating_add(latency_strictness, bandwidth_strictness),
                               BID_SLA_WEIGHT),
                BPS_DENOM)
        total_factor == saturating_add(premium_factor, sla_factor)
    IN  saturating_div(saturating_mul(max_spend, total_factor), BPS_DENOM)

\* The bitmap is the set of the indexes whose bit is 1.
\* A bitmap read that finds no bit set
bit_never_set(bitmap, idx) == FALSE

bit_is_set(bitmap, idx) == IF idx >= BITMAP_BITS THEN TRUE ELSE idx \in bitmap
\* A bitmap write that sets no bit
set_no_bit(bitmap, idx) == bitmap

set_bit(bitmap, idx) == IF idx >= BITMAP_BITS THEN bitmap ELSE bitmap \cup {idx}

\* A bucket start that ignores the index
window_start_for_all(sla_window_start, bucket_index, bucket_slots) ==
    [some |-> TRUE, v |-> sla_window_start]

\* [some, v]: None when the product or the sum overflows
checked_bucket_start(sla_window_start, bucket_index, bucket_slots) ==
    IF MulOverflows(bucket_index, bucket_slots) THEN [some |-> FALSE, v |-> 0]
    ELSE IF AddOverflows(sla_window_start, bucket_index * bucket_slots)
    THEN [some |-> FALSE, v |-> 0]
    ELSE [some |-> TRUE, v |-> sla_window_start + bucket_index * bucket_slots]

\* A bucket count that accepts a window of any length and rounds down
buckets_total_rounded(sla_window_slots, bucket_slots) ==
    IF ~(bucket_slots > 0) THEN [err |-> "InvalidBucketConfig", v |-> 0]
    ELSE LET total == sla_window_slots \div bucket_slots
         IN  IF ~(total > 0 /\ total <= BITMAP_BITS)
             THEN [err |-> "InvalidBucketConfig", v |-> 0]
             ELSE [err |-> "Ok", v |-> total]

\* [err, v]
compute_buckets_total(sla_window_slots, bucket_slots) ==
    IF ~(bucket_slots > 0) THEN [err |-> "InvalidBucketConfig", v |-> 0]
    ELSE IF sla_window_slots % bucket_slots # 0 THEN [err |-> "InvalidBucketConfig", v |-> 0]
    ELSE LET total == sla_window_slots \div bucket_slots
         IN  IF ~(total > 0 /\ total <= BITMAP_BITS)
             THEN [err |-> "InvalidBucketConfig", v |-> 0]
             ELSE [err |-> "Ok", v |-> total]

\* The product is computed in twice the word's width, so only the final
\* narrowing of the quotient can fail.
compute_bucket_penalty(collateral, max_penalty_bps, buckets_total) ==
    LET numerator == collateral * max_penalty_bps
        denominator == buckets_total * 10000
    IN  IF denominator = 0 THEN [err |-> "Overflow", v |-> 0]
        ELSE IF numerator \div denominator > WordMax THEN [err |-> "Overflow", v |-> 0]
        ELSE [err |-> "Ok", v |-> numerator \div denominator]

combine_failure_reason(current, new) ==
    CASE current = "None" -> new
      [] new = "None" -> current
      [] current = "Latency" /\ new = "Bandwidth" -> "Both"
      [] current = "Bandwidth" /\ new = "Latency" -> "Both"
      [] current = "Both" -> "Both"
      [] new = "Both" -> "Both"
      [] OTHER -> current

\* ------------------------------------------------------------------------
\* Ed25519 precompile instructions of a transaction
\* ------------------------------------------------------------------------
\* kind "none": the instruction at that index is not of the Ed25519 program;
\* kind "short": an Ed25519 instruction whose data is shorter than 16 bytes;
\* kind "sig": an Ed25519 instruction carrying a signature of `signer` over
\* `msg`; `keys` and `msgs` are the keys and the messages whose bytes occur
\* inside the signed message.
NoIx == [kind |-> "none", signer |-> NoKey, msg |-> <<>>, keys |-> {}, msgs |-> {}]
ShortIx == [kind |-> "short", signer |-> NoKey, msg |-> <<>>, keys |-> {}, msgs |-> {}]
SigIx(k, m, ks, ms) == [kind |-> "sig", signer |-> k, msg |-> m, keys |-> ks, msgs |-> ms]

PermitMessage(session, provider, permit_nonce, amount, expiry_slot) ==
    <<"permit", session, provider, permit_nonce, amount, expiry_slot>>

BucketMessage(session, bucket_index, bucket_start_slot, failure_reason) ==
    <<"SessEsc", session, bucket_index, bucket_start_slot, failure_reason>>

\* Only the instruction at index 0 is looked at: its program and its length.
verify_permit_signature(ix0, user, session, provider, permit_nonce, amount, expiry_slot) ==
    IF ix0.kind = "none" THEN "InvalidSignatureInstruction"
    ELSE IF ix0.kind = "short" THEN "InvalidSignatureData"
    ELSE "Ok"

\* The preceding instruction must be an Ed25519 instruction whose data
\* contains the verifier's key and the expected message somewhere.
verify_bucket_failure_signature(ixPrev, expected_verifier, session, bucket_index, bucket_start_slot, failure_reason) ==
    LET expected_message ==
            BucketMessage(session, bucket_index, bucket_start_slot, failure_reason)
        pubkey_found == ixPrev.signer = expected_verifier \/ expected_verifier \in ixPrev.keys
        message_found == ixPrev.msg = expected_message \/ expected_message \in ixPrev.msgs
    IN  IF ixPrev.kind = "none" THEN "InvalidEd25519Instruction"
        ELSE IF ixPrev.kind = "short" THEN "InvalidEd25519Instruction"
        ELSE IF ~pubkey_found THEN "InvalidAttester"
        ELSE IF ~message_found THEN "SignatureMessageMismatch"
        ELSE "Ok"

\* ------------------------------------------------------------------------
\* session_escrow: the Session account
\* ------------------------------------------------------------------------
NoSession ==
    [state |-> "None", user |-> NoKey, provider |-> NoKey, mode_id |-> 0,
     price_per_chunk |-> 0, max_spend |-> 0, total_spent |-> 0, reserve_r |-> 0,
     start_deadline_slot |-> 0, stall_timeout_slots |-> 0, last_progress_slot |-> 0,
     acked |-> FALSE, next_permit_nonce |-> 0,
     is_bid |-> FALSE, premium_bps |-> 0, fail_payout_bps |-> 0,
     latency_target_ms |-> 0, bandwidth_min_chunks |-> 0,
     sla_window_slots |-> 0, sla_window_start_slot |-> 0, sla_window_end_slot |-> 0,
     base_coverage_p |-> 0, bid_coverage_p |-> 0, reserve_base |-> 0, reserve_bid |-> 0,
     sla_status |-> "None", sla_failure_reason |-> "None", latency_attested |-> FALSE,
     nonce_at_window_start |-> 0, nonce_at_window_end |-> 0,
     bucket_slots |-> 0, buckets_total |-> 0, bucket_penalty |-> 0,
     buckets_failed |-> 0, buckets_failed_bitmap |-> {},
     first_violation_slot |-> 0, terminate_window_slots |-> 0,
     terminate_deadline_slot |-> 0, penalty_accrued |-> 0,
     verifier_pubkey |-> NoKey, terminated_for_cause |-> FALSE]

SessionExists(st, s) == st.sess[s].state # "None"

\* First error of a sequence of check outcomes, "Ok" when all passed
RECURSIVE FirstErr(_)
FirstErr(es) ==
    IF es = <<>> THEN "Ok"
    ELSE IF Head(es) # "Ok" THEN Head(es)
    ELSE FirstErr(Tail(es))

Require(cond, e) == IF cond THEN "Ok" ELSE e

\* r, then f on r's state when r succeeded (the `?` after a call)
Then(r, f(_)) == IF r.err # "Ok" THEN r ELSE f(r.st)

\* Parameters of open_session the callers of the model pass
PlainConfig ==
    [mode_id |-> 1, price_per_chunk |-> 100, max_spend |-> 10000,
     start_deadline_slots |-> 1, stall_timeout_slots |-> 1,
     is_bid |-> FALSE, premium_bps |-> 0, fail_payout_bps |-> 0,
     latency_target_ms |-> 0, bandwidth_min_chunks |-> 0,
     sla_warmup_slots |-> 0, sla_window_slots |-> 0,
     bucket_slots |-> 0, terminate_window_slots |-> 0, max_penalty_bps |-> 0,
     verifier_pubkey |-> NoKey]

BidConfig ==
    [mode_id |-> 1, price_per_chunk |-> 100, max_spend |-> 10000,
     start_deadline_slots |-> 1, stall_timeout_slots |-> 2,
     is_bid |-> TRUE, premium_bps |-> 10000, fail_payout_bps |-> 5000,
     latency_target_ms |-> 100, bandwidth_min_chunks |-> 1,
     sla_warmup_slots |-> 1, sla_window_slots |-> 2,
     bucket_slots |-> 1, terminate_window_slots |-> 1, max_penalty_bps |-> 10000,
     verifier_pubkey |-> "v"]

Configs == {PlainConfig, BidConfig}

\* open_session: `init` of the session PDA of (user, session_nonce)
open_session(st, s, provider, cfg, slot) ==
    LET base_coverage_p == compute_insurance_coverage(cfg.max_spend, cfg.price_per_chunk)
        reserve_base == IF MulOverflows(base_coverage_p, CR_BPS) THEN 0
                        ELSE (base_coverage_p * CR_BPS) \div 10000
        bid_cov == IF cfg.is_bid
                   THEN compute_bid_coverage(cfg.max_spend, cfg.premium_bps,
                                             cfg.latency_target_ms, cfg.bandwidth_min_chunks)
                   ELSE 0
        res_bid == IF cfg.is_bid /\ ~MulOverflows(bid_cov, CR_BPS)
                   THEN (bid_cov * CR_BPS) \div 10000 ELSE 0
        window_start == IF cfg.is_bid THEN slot + cfg.sla_warmup_slots ELSE 0
        window_end == IF cfg.is_bid THEN window_start + cfg.sla_window_slots ELSE 0
        total_reserve == reserve_base + res_bid
        start_deadline_slot == slot + cfg.start_deadline_slots
        bucketed == cfg.is_bid /\ cfg.bucket_slots > 0
        bt == compute_buckets_total(cfg.sla_window_slots, cfg.bucket_slots)
        bp == compute_bucket_penalty(total_reserve, cfg.max_penalty_bps, bt.v)
        e == FirstErr(<<
                Require(~SessionExists(st, s), "AccountAlreadyInUse"),
                Require(~MulOverflows(base_coverage_p, CR_BPS), "Overflow"),
                Require(~(cfg.is_bid /\ MulOverflows(bid_cov, CR_BPS)), "Overflow"),
                Require(~(cfg.is_bid /\ AddOverflows(slot, cfg.sla_warmup_slots)), "Overflow"),
                Require(~(cfg.is_bid /\ AddOverflows(window_start, cfg.sla_window_slots)),
                        "Overflow"),
                Require(~AddOverflows(reserve_base, res_bid), "Overflow"),
                Require(~AddOverflows(slot, cfg.start_deadline_slots), "Overflow"),
                IF bucketed THEN bt.err ELSE "Ok",
                IF bucketed /\ bt.err = "Ok" THEN bp.err ELSE "Ok" >>)
        session ==
            [NoSession EXCEPT
                !.user = s[1], !.provider = provider, !.mode_id = cfg.mode_id,
                !.price_per_chunk = cfg.price_per_chunk, !.max_spend = cfg.max_spend,
                !.total_spent = 0, !.reserve_r = total_reserve,
                !.start_deadline_slot = start_deadline_slot,
                !.stall_timeout_slots = cfg.stall_timeout_slots,
                !.last_progress_slot = 0, !.state = "Open", !.acked = FALSE,
                !.next_permit_nonce = 0,
                !.is_bid = cfg.is_bid, !.premium_bps = cfg.premium_bps,
                !.fail_payout_bps = cfg.fail_payout_bps,
                !.latency_target_ms = cfg.latency_target_ms,
                !.bandwidth_min_chunks = cfg.bandwidth_min_chunks,
                !.sla_window_slots = cfg.sla_window_slots,
                !.sla_window_start_slot = window_start, !.sla_window_end_slot = window_end,
                !.base_coverage_p = base_coverage_p, !.bid_coverage_p = bid_cov,
                !.reserve_base = reserve_base, !.reserve_bid = res_bid,
                !.sla_status = "None", !.sla_failure_reason = "None",
                !.latency_attested = FALSE,
                !.nonce_at_window_start = 0, !.nonce_at_window_end = 0,
                !.bucket_slots = IF bucketed THEN cfg.bucket_slots ELSE 0,
                !.buckets_total = IF bucketed THEN bt.v ELSE 0,
                !.bucket_penalty = IF bucketed THEN bp.v ELSE 0,
                !.buckets_failed = 0, !.buckets_failed_bitmap = {},
                !.first_violation_slot = 0,
                !.terminate_window_slots = cfg.terminate_window_slots,
                !.terminate_deadline_slot = 0, !.penalty_accrued = 0,
                !.verifier_pubkey = cfg.verifier_pubkey, !.terminated_for_cause = FALSE]
    IN  IF e # "Ok" THEN Fail(e, st)
        ELSE Ok([st EXCEPT !.sess[s] = session, !.redeemed[s] = <<>>])

\* Account constraints: the session PDA exists; has_one = user / provider
SessionOnly(st, s) == Require(SessionExists(st, s), "AccountNotInitialized")

HasOneUser(st, s, signer) ==
    FirstErr(<<SessionOnly(st, s), Require(st.sess[s].user = signer, "WrongUser")>>)

HasOneProvider(st, s, signer) ==
    FirstErr(<<SessionOnly(st, s), Require(st.sess[s].provider = signer, "WrongProvider")>>)

\* `position` is any initialised ProviderPosition account
AnyPosition(st, p) == Require(PositionExists(st, p), "AccountNotInitialized")

FundSessionAccounts(st, s, signer) == HasOneUser(st, s, signer)

\* Funding accepted in every state
AnyState(session) == TRUE

FundableState(session) == session.state = "Open" \/ session.state = "Active"

fund_session(st, s, signer, amount) ==
    LET session == st.sess[s]
        e == FirstErr(<<
                FundSessionAccounts(st, s, signer),
                Require(amount > 0, "ZeroAmount"),
                Require(FundableState(session), "SessionNotFundable") >>)
    IN  IF e # "Ok" THEN Fail(e, st)
        ELSE token_transfer(st, Wallet(signer), Escrow(s), amount)

AckStartAccounts(st, s, signer, p) ==
    FirstErr(<<HasOneProvider(st, s, signer), AnyPosition(st, p)>>)

\* An acknowledgement accepted at any time
AckAtAnyTime(slot, session) == TRUE

AckWithinDeadline(slot, session) == slot <= session.start_deadline_slot

ack_start(st, s, signer, p, slot) ==
    LET session == st.sess[s]
        e == FirstErr(<<
                AckStartAccounts(st, s, signer, p),
                Require(session.state = "Open", "InvalidSessionState"),
                Require(~session.acked, "AlreadyAcked"),
                Require(AckWithinDeadline(slot, session), "StartDeadlinePassed") >>)
        st1 == [st EXCEPT !.sess[s] =
                    [session EXCEPT !.acked = TRUE, !.state = "Active",
                                    !.last_progress_slot = slot,
                                    !.sla_status = IF session.is_bid THEN "Pending" ELSE @]]
    IN  IF e # "Ok" THEN Fail(e, st)
        ELSE reserve(st1, p, signer, s, session.reserve_r)

SnapshotWindowStartAccounts(st, s) == SessionOnly(st, s)

snapshot_window_start(st, s, slot) ==
    LET session == st.sess[s]
        e == FirstErr(<<
                SnapshotWindowStartAccounts(st, s),
                Require(session.is_bid, "NotBidSession"),
                Require(session.state = "Active", "SessionNotActive"),
                Require(slot >= session.sla_window_start_slot, "SlaWindowNotStarted"),
                Require(session.nonce_at_window_start = 0, "WindowAlreadySnapshotted") >>)
    IN  IF e # "Ok" THEN Fail(e, st)
        ELSE Ok([st EXCEPT !.sess[s].nonce_at_window_start = session.next_permit_nonce])

RedeemPermitAccounts(st, s, signer) == HasOneProvider(st, s, signer)

\* A sequence check that lets a caller skip ahead
PermitNonceAtLeast(permit_nonce, session) == permit_nonce >= session.next_permit_nonce

PermitNonceCheck(permit_nonce, session) == permit_nonce = session.next_permit_nonce

\* No check of the cumulative spend
NoSpendLimit(new_total_spent, session) == TRUE

SpendLimitCheck(new_total_spent, session) == new_total_spent <= session.max_spend

\* Permits redeemed in every state of the session
RedeemInAnyState(session) == TRUE

RedeemableState(session) == session.state = "Active"

redeem_permit(st, s, signer, permit_nonce, amount, expiry_slot, ix0, dest, slot) ==
    LET session == st.sess[s]
        escrow_balance == st.bal[Escrow(s)]
        new_total_spent == session.total_spent + amount
        e == FirstErr(<<
                RedeemPermitAccounts(st, s, signer),
                Require(RedeemableState(session), "SessionNotActive"),
                Require(slot <= expiry_slot, "PermitExpired"),
                Require(PermitNonceCheck(permit_nonce, session), "InvalidPermitNonce"),
                verify_permit_signature(ix0, session.user, s, session.provider,
                                        permit_nonce, amount, expiry_slot),
                Require(amount <= escrow_balance, "InsufficientEscrow"),
                Require(~AddOverflows(session.total_spent, amount), "Overflow"),
                Require(SpendLimitCheck(new_total_spent, session), "MaxSpendExceeded"),
                Require(~AddOverflows(permit_nonce, 1), "Overflow") >>)
        st1 == [st EXCEPT !.sess[s] =
                    [session EXCEPT !.total_spent = new_total_spent,
                                    !.next_permit_nonce = permit_nonce + 1,
                                    !.last_progress_slot = slot],
                          !.redeemed[s] = Append(@, permit_nonce)]
    IN  IF e # "Ok" THEN Fail(e, st)
        ELSE token_transfer(st1, Escrow(s), dest, amount)

EvaluateBandwidthSlaAccounts(st, s) == SessionOnly(st, s)

evaluate_bandwidth_sla(st, s, slot) ==
    LET session == st.sess[s]
        e == FirstErr(<<
                EvaluateBandwidthSlaAccounts(st, s),
                Require(session.is_bid, "NotBidSession"),
                Require(session.state = "Active", "SessionNotActive"),
                Require(session.sla_status = "Pending" \/ session.sla_status = "None",
                        "SlaAlreadyEvaluated"),
                Require(slot > session.sla_window_end_slot, "SlaWindowNotEnded"),
                Require(session.nonce_at_window_start > 0, "WindowStartNotSnapshotted") >>)
        nonce_at_window_end == session.next_permit_nonce
        chunks_delivered == saturating_sub(nonce_at_window_end, session.nonce_at_window_start)
        bandwidth_passed == chunks_delivered >= session.bandwidth_min_chunks
        reason == CASE session.sla_failure_reason = "None" -> "Bandwidth"
                    [] session.sla_failure_reason = "Latency" -> "Both"
                    [] OTHER -> session.sla_failure_reason
    IN  IF e # "Ok" THEN Fail(e, st)
        ELSE IF bandwidth_passed
        THEN Ok([st EXCEPT !.sess[s].nonce_at_window_end = nonce_at_window_end])
        ELSE Ok([st EXCEPT !.sess[s] =
                    [session EXCEPT !.nonce_at_window_end = nonce_at_window_end,
                                    !.sla_failure_reason = reason,
                                    !.sla_status = "Failed"]])

\* The registry account is read by no check of the handler.
SubmitLatencyAttestationAccounts(st, s, verifier) ==
    SessionOnly(st, s)

submit_latency_attestation(st, s, verifier, rtt_p90_ms, measurement_window_start, measurement_window_end) ==
    LET session == st.sess[s]
        e == FirstErr(<<
                SubmitLatencyAttestationAccounts(st, s, verifier),
                Require(session.is_bid, "NotBidSession"),
                Require(session.state = "Active", "SessionNotActive"),
                Require(~session.latency_attested, "LatencyAlreadyAttested"),
                Require(measurement_window_start <= session.sla_window_end_slot
                        /\ measurement_window_end >= session.sla_window_start_slot,
                        "InvalidMeasurementWindow") >>)
        latency_passed == rtt_p90_ms <= session.latency_target_ms
        reason == CASE session.sla_failure_reason = "None" -> "Latency"
                    [] session.sla_failure_reason = "Bandwidth" -> "Both"
                    [] OTHER -> session.sla_failure_reason
    IN  IF e # "Ok" THEN Fail(e, st)
        ELSE IF latency_passed
        THEN Ok([st EXCEPT !.sess[s].latency_attested = TRUE])
        ELSE Ok([st EXCEPT !.sess[s] =
                    [session EXCEPT !.latency_attested = TRUE,
                                    !.sla_failure_reason = reason,
                                    !.sla_status = "Failed"]])

FinalizeSlaAccounts(st, s) == SessionOnly(st, s)

finalize_sla_met(st, s, slot) ==
    LET session == st.sess[s]
        e == FirstErr(<<
                FinalizeSlaAccounts(st, s),
                Require(session.is_bid, "NotBidSession"),
                Require(session.state = "Active", "SessionNotActive"),
                Require(session.sla_status = "Pending", "SlaAlreadyEvaluated"),
                Require(slot > session.sla_window_end_slot, "SlaWindowNotEnded"),
                Require(session.sla_failure_reason = "None", "SlaHasFailures") >>)
    IN  IF e # "Ok" THEN Fail(e, st)
        ELSE Ok([st EXCEPT !.sess[s].sla_status = "Met"])

\* Refund of the escrow balance read at the start of the handler
RefundEscrow(st, s, escrow_balance, dest) ==
    IF escrow_balance > 0
    THEN token_transfer(st, Escrow(s), dest, escrow_balance)
    ELSE Ok(st)

\* Release of what is left of the reserve after a slash
ReleaseRemaining(st, p, s, reserve_r, actual_payout) ==
    LET remaining_reserve == saturating_sub(reserve_r, actual_payout)
    IN  IF remaining_reserve > 0 THEN release(st, p, s, s, remaining_reserve) ELSE Ok(st)

ClaimSlaFailureAccounts(st, s, signer, p) ==
    FirstErr(<<HasOneUser(st, s, signer), AnyPosition(st, p)>>)

claim_sla_failure(st, s, signer, p, dest) ==
    LET session == st.sess[s]
        escrow_balance == st.bal[Escrow(s)]
        total_insured == session.base_coverage_p + session.bid_coverage_p
        payout == (total_insured * session.fail_payout_bps) \div 10000
        actual_payout == Min(payout, session.reserve_r)
        e == FirstErr(<<
                ClaimSlaFailureAccounts(st, s, signer, p),
                Require(session.is_bid, "NotBidSession"),
                Require(session.sla_status = "Failed", "SlaNotFailed"),
                Require(session.state = "Active", "InvalidSessionState"),
                Require(~AddOverflows(session.base_coverage_p, session.bid_coverage_p),
                        "Overflow"),
                Require(~MulOverflows(total_insured, session.fail_payout_bps), "Overflow") >>)
        st1 == [st EXCEPT !.sess[s].state = "Claimed"]
    IN  IF e # "Ok" THEN Fail(e, st)
        ELSE Then(slash_and_pay(st1, p, s, s, actual_payout, dest), LAMBDA st2 :
             Then(ReleaseRemaining(st2, p, s, session.reserve_r, actual_payout), LAMBDA st3 :
                  RefundEscrow(st3, s, escrow_balance, dest)))

CloseSessionAccounts(st, s, signer) == HasOneUser(st, s, signer)

\* A close accepted in every state
CloseFromAnyState(session) == TRUE

CloseableState(session) == session.state = "Active" \/ session.state = "Open"

close_session(st, s, signer) ==
    LET session == st.sess[s]
        e == FirstErr(<<
                CloseSessionAccounts(st, s, signer),
                Require(CloseableState(session), "InvalidSessionState") >>)
    IN  IF e # "Ok" THEN Fail(e, st)
        ELSE Ok([st EXCEPT !.sess[s].state = "Closing"])

FinalizeCloseAccounts(st, s, p) == FirstErr(<<SessionOnly(st, s), AnyPosition(st, p)>>)

finalize_close(st, s, p, dest) ==
    LET session == st.sess[s]
        escrow_balance == st.bal[Escrow(s)]
        was_active == session.acked
        e == FirstErr(<<
                FinalizeCloseAccounts(st, s, p),
                Require(session.state = "Closing", "InvalidSessionState") >>)
        st1 == [st EXCEPT !.sess[s] =
                    [session EXCEPT
                        !.sla_status = IF session.is_bid /\ session.sla_status = "Pending"
                                       THEN "Met" ELSE @,
                        !.state = "Closed"]]
    IN  IF e # "Ok" THEN Fail(e, st)
        ELSE Then(IF was_active THEN release(st1, p, s, s, session.reserve_r) ELSE Ok(st1),
                  LAMBDA st2 : RefundEscrow(st2, s, escrow_balance, dest))

ClaimNoStartAccounts(st, s, signer) == HasOneUser(st, s, signer)

claim_no_start(st, s, signer, dest, slot) ==
    LET session == st.sess[s]
        escrow_balance == st.bal[Escrow(s)]
        e == FirstErr(<<
                ClaimNoStartAccounts(st, s, signer),
                Require(session.state = "Open", "InvalidSessionState"),
                Require(~session.acked, "SessionAlreadyStarted"),
                Require(slot > session.start_deadline_slot, "DeadlineNotPassed") >>)
        st1 == [st EXCEPT !.sess[s].state = "Claimed"]
    IN  IF e # "Ok" THEN Fail(e, st)
        ELSE RefundEscrow(st1, s, escrow_balance, dest)

ClaimStallAccounts(st, s, signer, p) ==
    FirstErr(<<HasOneUser(st, s, signer), AnyPosition(st, p)>>)

\* A stall claim accepted in every state of the session
StallClaimInAnyState(session) == TRUE

StallClaimableState(session) == session.state = "Active"

claim_stall(st, s, signer, p, dest, slot) ==
    LET session == st.sess[s]
        escrow_balance == st.bal[Escrow(s)]
        stall_deadline == session.last_progress_slot + session.stall_timeout_slots
        payout == Min(session.base_coverage_p, session.reserve_r)
        e == FirstErr(<<
                ClaimStallAccounts(st, s, signer, p),
                Require(StallClaimableState(session), "InvalidSessionState"),
                Require(session.acked, "SessionNotStarted"),
                Require(~AddOverflows(session.last_progress_slot,
                                      session.stall_timeout_slots), "Overflow"),
                Require(slot > stall_deadline, "StallTimeoutNotReached") >>)
        st1 == [st EXCEPT !.sess[s].state = "Claimed"]
    IN  IF e # "Ok" THEN Fail(e, st)
        ELSE Then(slash_and_pay(st1, p, s, s, payout, dest), LAMBDA st2 :
                  RefundEscrow(st2, s, escrow_balance, dest))

\* An accrual with no cap
AccrueUncapped(session) == session.penalty_accrued + session.bucket_penalty

\* The accrued penalty after one more failed bucket, capped at the reserve
AccruePenalty(session) ==
    Min(session.penalty_accrued + session.bucket_penalty, session.reserve_r)

ReportBucketFailureAccounts(st, s, verifier) ==
    SessionOnly(st, s)

\* Every accepted report taken as the first violation
EveryReportFirst(session) == TRUE

IsFirstViolation(session) == session.sla_status = "Pending"

report_bucket_failure(st, s, verifier, bucket_index, bucket_start_slot, failure_reason, ixPrev, slot) ==
    LET session == st.sess[s]
        expected_bucket_start ==
            checked_bucket_start(session.sla_window_start_slot, bucket_index,
                                 session.bucket_slots)
        e == FirstErr(<<
                ReportBucketFailureAccounts(st, s, verifier),
                Require(session.is_bid, "NotBidSession"),
                Require(session.state = "Active", "SessionNotActive"),
                Require(session.sla_status = "Pending" \/ session.sla_status = "Violated",
                        "SlaAlreadyEvaluated"),
                Require(slot >= session.sla_window_start_slot
                        /\ slot <= session.sla_window_end_slot, "ReportOutsideSlaWindow"),
                Require(session.sla_status = "Violated"
                            => slot <= session.terminate_deadline_slot,
                        "ReportAfterDeadline"),
                Require(bucket_index < session.buckets_total, "BucketIndexOutOfBounds"),
                Require(expected_bucket_start.some, "Overflow"),
                Require(bucket_start_slot = expected_bucket_start.v, "BucketSlotMismatch"),
                Require(verifier = session.verifier_pubkey, "InvalidAttester"),
                verify_bucket_failure_signature(ixPrev, session.verifier_pubkey, s,
                        bucket_index, bucket_start_slot, failure_reason),
                Require(~bit_is_set(session.buckets_failed_bitmap, bucket_index),
                        "BucketAlreadyReported"),
                Require(~AddOverflows(session.buckets_failed, 1), "Overflow"),
                Require(~AddOverflows(session.penalty_accrued, session.bucket_penalty),
                        "Overflow") >>)
        first == IsFirstViolation(session)
    IN  IF e # "Ok" THEN Fail(e, st)
        ELSE Ok([st EXCEPT !.sess[s] =
                [session EXCEPT
                    !.buckets_failed_bitmap = set_bit(@, bucket_index),
                    !.first_violation_slot = IF first THEN slot ELSE @,
                    !.terminate_deadline_slot =
                        IF first THEN saturating_add(slot, session.terminate_window_slots)
                        ELSE @,
                    !.sla_status = IF first THEN "Violated" ELSE @,
                    !.buckets_failed = @ + 1,
                    !.penalty_accrued = AccruePenalty(session),
                    !.sla_failure_reason = combine_failure_reason(@, failure_reason)]])

\* A penalty that is never slashed
SlashNothing(st, p, s, actual_penalty, dest) == Ok(st)

\* Slash of the penalty, when it is positive
SlashPenalty(st, p, s, actual_penalty, dest) ==
    IF actual_penalty > 0 THEN slash_and_pay(st, p, s, s, actual_penalty, dest) ELSE Ok(st)

TerminateForCauseAccounts(st, s, signer, p) ==
    FirstErr(<<HasOneUser(st, s, signer), AnyPosition(st, p)>>)

terminate_for_cause(st, s, signer, p, dest, slot) ==
    LET session == st.sess[s]
        escrow_balance == st.bal[Escrow(s)]
        computed_penalty == session.bucket_penalty * session.buckets_failed
        actual_penalty == Min(Min(computed_penalty, session.penalty_accrued),
                              session.reserve_r)
        e == FirstErr(<<
                TerminateForCauseAccounts(st, s, signer, p),
                Require(session.is_bid, "NotBidSession"),
                Require(session.state = "Active", "SessionNotActive"),
                Require(session.sla_status = "Violated", "SessionNotViolated"),
                Require(~session.terminated_for_cause, "SessionAlreadyTerminated"),
                Require(slot <= session.terminate_deadline_slot, "TerminationWindowExpired"),
                Require(~MulOverflows(session.bucket_penalty, session.buckets_failed),
                        "Overflow") >>)
        st1 == [st EXCEPT !.sess[s] =
                    [session EXCEPT !.sla_status = "TerminatedForCause",
                                    !.terminated_for_cause = TRUE,
                                    !.state = "Claimed"]]
    IN  IF e # "Ok" THEN Fail(e, st)
        ELSE Then(SlashPenalty(st1, p, s, actual_penalty, dest), LAMBDA st2 :
             Then(ReleaseRemaining(st2, p, s, session.reserve_r, actual_penalty), LAMBDA st3 :
                  RefundEscrow(st3, s, escrow_balance, dest)))

SettleSlaAccounts(st, s, p) == FirstErr(<<SessionOnly(st, s), AnyPosition(st, p)>>)

settle_sla(st, s, p, provider_dest, user_dest, slot) ==
    LET session == st.sess[s]
        escrow_balance == st.bal[Escrow(s)]
        reserve_r == session.reserve_r
        buckets_failed == session.buckets_failed
        computed_penalty == session.bucket_penalty * buckets_failed
        actual_penalty == Min(Min(computed_penalty, session.penalty_accrued), reserve_r)
        e == FirstErr(<<
                SettleSlaAccounts(st, s, p),
                Require(session.is_bid, "NotBidSession"),
                Require(session.state = "Active", "SessionNotActive"),
                Require(session.sla_status = "Pending" \/ session.sla_status = "Violated",
                        "SlaAlreadyEvaluated"),
                Require(~session.terminated_for_cause, "SessionAlreadyTerminated"),
                Require(slot > session.sla_window_end_slot, "SlaWindowNotEnded") >>)
        met == [st EXCEPT !.sess[s] = [session EXCEPT !.sla_status = "Met",
                                                      !.state = "Closed"]]
        failed == [st EXCEPT !.sess[s] = [session EXCEPT !.sla_status = "Failed",
                                                         !.state = "Claimed"]]
    IN  IF e # "Ok" THEN Fail(e, st)
        ELSE IF buckets_failed = 0
        THEN Then(release(met, p, s, s, reserve_r), LAMBDA st2 :
                  RefundEscrow(st2, s, escrow_balance, provider_dest))
        ELSE IF MulOverflows(session.bucket_penalty, buckets_failed)
        THEN Fail("Overflow", failed)
        ELSE Then(SlashPenalty(failed, p, s, actual_penalty, user_dest), LAMBDA st2 :
             Then(ReleaseRemaining(st2, p, s, reserve_r, actual_penalty), LAMBDA st3 :
                  RefundEscrow(st3, s, escrow_balance, user_dest)))

\* ------------------------------------------------------------------------
\* State
\* ------------------------------------------------------------------------
VARIABLES
    now,            \* Clock::get().slot
    sessions,       \* Session accounts
    positions,      \* ProviderPosition accounts
    bal,            \* balances of the token accounts
    redeemed,       \* history: the permit sequences redeemed, per session
    outstanding,    \* history: reserved minus released and slashed, per position
    quote           \* an oracle price under validation and the validation's result

vars == <<now, sessions, positions, bal, redeemed, outstanding, quote>>

St == [sess |-> sessions, pos |-> positions, bal |-> bal,
       redeemed |-> redeemed, outstanding |-> outstanding]

\* The handler's writes persisted whatever it returns
CommitAlways(st, r) == r.st

\* An instruction that returns an error persists nothing.
Commit(st, r) == IF r.err = "Ok" THEN r.st ELSE st

Install(st) ==
    /\ st # St
    /\ sessions' = st.sess
    /\ positions' = st.pos
    /\ bal' = st.bal
    /\ redeemed' = st.redeemed
    /\ outstanding' = st.outstanding
    /\ UNCHANGED <<now, quote>>

\* One instruction: the handler's result, committed
Step(r) == Install(Commit(St, r))

\* The state after the programs are deployed: no account exists, the wallets
\* hold `funds`
InitAccounts(funds) ==
    /\ now = 0
    /\ sessions = [s \in SessIds |-> NoSession]
    /\ positions = [p \in PosIds |-> NoPosition]
    /\ bal = [a \in TokenAccounts |-> IF a[1] = "wallet" THEN funds[a[2]] ELSE 0]
    /\ redeemed = [s \in SessIds |-> <<>>]
    /\ outstanding = [p \in PosIds |-> 0]

\* No price is under validation
NoQuote == [price |-> 0, conf |-> 0, max_conf_ratio_bps |-> 0, result |-> "None"]

InitWith(funds) == InitAccounts(funds) /\ quote = NoQuote

\* ------------------------------------------------------------------------
\* Inputs of the calls
\* ------------------------------------------------------------------------
Callers == Users \cup Providers \cup Outsiders
MainSessions == {<<"u1", 0>>}
SessionProviders == {"p1"}
DirectTargets == {<<"p1", 1>>}   \* positions the outsider calls the vault on
ReportReasons == {"Latency", "PrivacyMode"}
ExpirySlots == {0, MaxSlot}
PermitNonces == 0..MaxPermits
BucketIndexes == 0..2
Slots == 0..MaxSlot
RttValues == {100, 101}

\* Destination token account a caller names: the wallet of the party the
\* payment is meant for
DestsFor(owner) == {Wallet(owner)}

\* Instructions a caller can place at index 0 of a redeem transaction
PermitIxs(s, provider, permit_nonce, amount, expiry_slot) ==
    {NoIx, ShortIx}
    \cup {SigIx(k, PermitMessage(s, provider, permit_nonce, amount, expiry_slot), {}, {})
            : k \in {s[1], "x"}}
    \cup {SigIx(s[1], PermitMessage(s, provider, permit_nonce, amount + 1, expiry_slot),
                {}, {})}

\* Instructions a caller can place before a bucket report
BucketIxs(s, verifier_pubkey, bucket_index, bucket_start_slot, failure_reason) ==
    LET m == BucketMessage(s, bucket_index, bucket_start_slot, failure_reason)
    IN  {NoIx, SigIx(verifier_pubkey, m, {}, {}),
         SigIx("x", <<"wrapped">>, {verifier_pubkey}, {m})}

\* ------------------------------------------------------------------------
\* Actions: one per instruction.  XIn(S, ...) is instruction X called on the
\* sessions of S.
\* ------------------------------------------------------------------------
TickTo(max) ==
    /\ now < max
    /\ now' = now + 1
    /\ UNCHANGED <<sessions, positions, bal, redeemed, outstanding, quote>>

DepositIn(providers, amounts) ==
    \E provider \in providers, mode_id \in Modes, amount \in amounts \cup {0} :
        Step(deposit(St, provider, mode_id, amount))

WithdrawIn(amounts) ==
    \E p \in PosIds, signer \in Callers, amount \in amounts :
        \E dest \in DestsFor(p[1]) :
            Step(withdraw(St, p, signer, amount, dest))

ReserveIn(amounts) ==
    \E p \in DirectTargets, signer \in Outsiders, amount_r \in amounts :
        Step(reserve(St, p, signer, signer, amount_r))

ReleaseIn(amounts) ==
    \E p \in DirectTargets, authority \in Outsiders, amount_r \in amounts :
        Step(release(St, p, authority, authority, amount_r))

SlashAndPayIn(amounts) ==
    \E p \in DirectTargets, authority \in Outsiders, payout \in amounts :
        \E dest \in DestsFor(authority) :
            Step(slash_and_pay(St, p, authority, authority, payout, dest))

OpenSessionIn(S, C) ==
    /\ now <= MaxOpenSlot
    /\ \E s \in S, provider \in SessionProviders, cfg \in C :
        Step(open_session(St, s, provider, cfg, now))

FundSessionIn(S) ==
    \E s \in S, signer \in Callers, amount \in FundAmounts :
        Step(fund_session(St, s, signer, amount))

AckStartIn(S) ==
    \E s \in S, signer \in Callers, p \in PosIds :
        Step(ack_start(St, s, signer, p, now))

SnapshotWindowStartIn(S) ==
    \E s \in S : Step(snapshot_window_start(St, s, now))

RedeemPermitIn(S, amounts, max_permits) ==
    \E s \in S, signer \in Providers, permit_nonce \in PermitNonces,
       amount \in amounts, expiry_slot \in ExpirySlots :
        /\ sessions[s].state = "Active"
        /\ sessions[s].next_permit_nonce < max_permits
        /\ \E ix0 \in PermitIxs(s, sessions[s].provider, permit_nonce, amount, expiry_slot),
              dest \in DestsFor(signer) :
            Step(redeem_permit(St, s, signer, permit_nonce, amount,
                               expiry_slot, ix0, dest, now))

EvaluateBandwidthSlaIn(S) ==
    \E s \in S : Step(evaluate_bandwidth_sla(St, s, now))

SubmitLatencyAttestationIn(S) ==
    \E s \in S, verifier \in Verifiers \cup Outsiders, rtt \in RttValues,
       mws \in {0}, mwe \in {0, MaxSlot} :
        Step(submit_latency_attestation(St, s, verifier, rtt, mws, mwe))

FinalizeSlaMetIn(S) ==
    \E s \in S : Step(finalize_sla_met(St, s, now))

ClaimSlaFailureIn(S) ==
    \E s \in S, signer \in Callers, p \in PosIds :
        \E dest \in DestsFor(signer) :
            Step(claim_sla_failure(St, s, signer, p, dest))

CloseSessionIn(S) ==
    \E s \in S, signer \in Callers : Step(close_session(St, s, signer))

FinalizeCloseIn(S) ==
    \E s \in S, p \in PosIds :
        \E dest \in DestsFor(sessions[s].user) :
            Step(finalize_close(St, s, p, dest))

ClaimNoStartIn(S) ==
    \E s \in S, signer \in Callers :
        \E dest \in DestsFor(signer) :
            Step(claim_no_start(St, s, signer, dest, now))

ClaimStallIn(S) ==
    \E s \in S, signer \in Callers, p \in PosIds :
        \E dest \in DestsFor(signer) :
            Step(claim_stall(St, s, signer, p, dest, now))

ReportBucketFailureIn(S) ==
    \E s \in S, verifier \in Verifiers \cup Outsiders, bucket_index \in BucketIndexes,
       bucket_start_slot \in Slots, failure_reason \in ReportReasons :
        /\ sessions[s].is_bid /\ sessions[s].state = "Active"
        /\ \E ixPrev \in BucketIxs(s, sessions[s].verifier_pubkey, bucket_index,
                                   bucket_start_slot, failure_reason) :
            Step(report_bucket_failure(St, s, verifier, bucket_index,
                                       bucket_start_slot, failure_reason, ixPrev, now))

TerminateForCauseIn(S) ==
    \E s \in S, signer \in Callers, p \in PosIds :
        \E dest \in DestsFor(signer) :
            Step(terminate_for_cause(St, s, signer, p, dest, now))

SettleSlaIn(S) ==
    \E s \in S, p \in PosIds :
        \E provider_dest \in DestsFor(sessions[s].provider),
           user_dest \in DestsFor(sessions[s].user) :
            Step(settle_sla(St, s, p, provider_dest, user_dest, now))

\* ------------------------------------------------------------------------
\* Spec: one session, plain or bid, through its whole life with every
\* instruction of the session program; its provider's position
\* ------------------------------------------------------------------------
Init == InitWith(Funds(10000, 2000, 0))

Tick == TickTo(MaxSlot)
Deposit == DepositIn(SessionProviders, DepositAmounts)
Withdraw == WithdrawIn(DepositAmounts)
OpenSession == OpenSessionIn(MainSessions, Configs)
FundSession == FundSessionIn(MainSessions)
AckStart == AckStartIn(MainSessions)
SnapshotWindowStart == SnapshotWindowStartIn(MainSessions)
RedeemPermit == RedeemPermitIn(MainSessions, SlaPermitAmounts, MaxSlaPermits)
EvaluateBandwidthSla == EvaluateBandwidthSlaIn(MainSessions)
SubmitLatencyAttestation == SubmitLatencyAttestationIn(MainSessions)
FinalizeSlaMet == FinalizeSlaMetIn(MainSessions)
ClaimSlaFailure == ClaimSlaFailureIn(MainSessions)
CloseSession == CloseSessionIn(MainSessions)
FinalizeClose == FinalizeCloseIn(MainSessions)
ClaimNoStart == ClaimNoStartIn(MainSessions)
ClaimStall == ClaimStallIn(MainSessions)
ReportBucketFailure == ReportBucketFailureIn(MainSessions)
TerminateForCause == TerminateForCauseIn(MainSessions)
SettleSla == SettleSlaIn(MainSessions)

Next ==
    \/ Tick
    \/ Deposit
    \/ Withdraw
    \/ OpenSession
    \/ FundSession
    \/ AckStart
    \/ SnapshotWindowStart
    \/ RedeemPermit
    \/ EvaluateBandwidthSla
    \/ SubmitLatencyAttestation
    \/ FinalizeSlaMet
    \/ ClaimSlaFailure
    \/ CloseSession
    \/ FinalizeClose
    \/ ClaimNoStart
    \/ ClaimStall
    \/ ReportBucketFailure
    \/ TerminateForCause
    \/ SettleSla

Spec == Init /\ [][Next]_vars

\* ------------------------------------------------------------------------
\* SpecPermit: one plain session and the redemption of its permits
\* ------------------------------------------------------------------------
InitPermit == InitWith(Funds(20000, 1000, 0))

PermitTick == TickTo(MaxShortSlot)
PermitDeposit == DepositIn(SessionProviders, DepositAmounts)
PermitOpenSession == OpenSessionIn(MainSessions, {PlainConfig})
PermitRedeemPermit == RedeemPermitIn(MainSessions, PermitAmounts, MaxPermits)

NextPermit ==
    \/ PermitTick
    \/ PermitDeposit
    \/ PermitOpenSession
    \/ FundSession
    \/ AckStart
    \/ PermitRedeemPermit
    \/ CloseSession
    \/ FinalizeClose
    \/ ClaimStall

SpecPermit == InitPermit /\ [][NextPermit]_vars

\* ------------------------------------------------------------------------
\* SpecVault: the vault program called directly and through two plain
\* sessions of one provider; a second provider's position
\* ------------------------------------------------------------------------
InitVault == InitWith(Funds(0, 2000, 1000))

VaultTick == TickTo(MaxShortSlot)
VaultDeposit == DepositIn(Providers, DepositAmounts)
Reserve == ReserveIn(DirectAmounts)
Release == ReleaseIn(DirectAmounts)
SlashAndPay == SlashAndPayIn(DirectAmounts)
VaultOpenSession == OpenSessionIn(SessIds, {PlainConfig})
VaultAckStart == AckStartIn(SessIds)
VaultCloseSession == CloseSessionIn(SessIds)
VaultFinalizeClose == FinalizeCloseIn(SessIds)
VaultClaimStall == ClaimStallIn(SessIds)

NextVault ==
    \/ VaultTick
    \/ VaultDeposit
    \/ Withdraw
    \/ Reserve
    \/ Release
    \/ SlashAndPay
    \/ VaultOpenSession
    \/ VaultAckStart
    \/ VaultCloseSession
    \/ VaultFinalizeClose
    \/ VaultClaimStall

SpecVault == InitVault /\ [][NextVault]_vars

\* The same with finalize_close taken whenever it stays enabled
SpecVaultFair == SpecVault /\ WF_vars(VaultFinalizeClose)

\* ------------------------------------------------------------------------
\* SpecLegacy: one session, plain or bid, of provider p1 and the window-level
\* SLA claim; both providers' positions
\* ------------------------------------------------------------------------
NextLegacy ==
    \/ Tick
    \/ VaultDeposit
    \/ OpenSession
    \/ AckStart
    \/ SubmitLatencyAttestation
    \/ ClaimSlaFailure

SpecLegacy == InitVault /\ [][NextLegacy]_vars

\* ------------------------------------------------------------------------
\* SpecOpen: one session opened with any of a range of parameters (small and
\* near the word's limit for the coverage, valid and invalid for the
\* buckets), then acknowledged, reported on and terminated or settled
\* ------------------------------------------------------------------------
\* (max_spend, price_per_chunk): the floor binds, the sum lies between floor
\* and cap, the cap binds, a product saturates
CoverageInputs ==
    {100, 10000, 100000, 1500000, 5000000} \X {100, 100000, 100000000}

\* (sla_window_slots, bucket_slots, max_penalty_bps)
BucketInputs ==
    ({<<2, 1>>, <<2, 2>>, <<3, 2>>, <<2, 3>>, <<0, 1>>, <<2, 0>>, <<1024, 1>>, <<1025, 1>>,
      <<2050, 2>>} \X {10000, 3333, 20000})

OpenConfigs ==
    {[cfg EXCEPT !.max_spend = i[1], !.price_per_chunk = i[2]] :
        cfg \in Configs, i \in CoverageInputs}
    \cup {[BidConfig EXCEPT !.sla_window_slots = i[1][1], !.bucket_slots = i[1][2],
                            !.max_penalty_bps = i[2]] : i \in BucketInputs}
    \cup {[BidConfig EXCEPT !.terminate_window_slots = WordMax],
          [BidConfig EXCEPT !.start_deadline_slots = WordMax],
          [BidConfig EXCEPT !.sla_warmup_slots = WordMax]}

OpenAnySession == OpenSessionIn(MainSessions, OpenConfigs)

NextOpen ==
    \/ Tick
    \/ Deposit
    \/ OpenAnySession
    \/ AckStart
    \/ ReportBucketFailure
    \/ TerminateForCause
    \/ SettleSla

SpecOpen == Init /\ [][NextOpen]_vars

\* ------------------------------------------------------------------------
\* SpecPremium: one bid session of a user who holds twice its max_spend,
\* funded, acknowledged, paid from by a permit and settled
\* ------------------------------------------------------------------------
InitPremium == InitWith(Funds(20000, 2000, 0))

PremiumOpenSession == OpenSessionIn(MainSessions, {BidConfig})

NextPremium ==
    \/ Tick
    \/ Deposit
    \/ PremiumOpenSession
    \/ FundSession
    \/ AckStart
    \/ RedeemPermit
    \/ SettleSla

SpecPremium == InitPremium /\ [][NextPremium]_vars

\* ------------------------------------------------------------------------
\* SpecConf: a price, its confidence and a ceiling are drawn, and assert_conf
\* is applied to them
\* ------------------------------------------------------------------------
QuotePrices == {-10000, -1, 0, 1, 3, 10000}
QuoteConfs == {0, 1, 99, 100, 101, 200, 5000}
QuoteCeilings == {0, 100, 200, 1000, 65535}

InitConf ==
    /\ InitAccounts(Funds(0, 0, 0))
    /\ \E price \in QuotePrices, conf \in QuoteConfs, ceiling \in QuoteCeilings :
        quote = [price |-> price, conf |-> conf, max_conf_ratio_bps |-> ceiling,
                 result |-> "None"]

AssertConf ==
    /\ quote.result = "None"
    /\ quote' = [quote EXCEPT
                    !.result = assert_conf(quote.price, quote.conf,
                                           quote.max_conf_ratio_bps)]
    /\ UNCHANGED <<now, sessions, positions, bal, redeemed, outstanding>>

NextConf == AssertConf

SpecConf == InitConf /\ [][NextConf]_vars

TypeOK ==
    /\ now \in 0..MaxSlot
    /\ \A p \in PosIds : positions[p].total >= 0 /\ positions[p].reserved >= 0
    /\ \A a \in TokenAccounts : bal[a] >= 0

\* ------------------------------------------------------------------------
\* Properties
\* ------------------------------------------------------------------------
TerminalStates == {"Closed", "Claimed"}

\* C1: in every reachable state every position has reserved <= total,
\* whatever deposits, withdrawals, reservations, releases and slashes, made by
\* whichever callers and whether they succeeded or failed, led to it.
C1_ReservedWithinTotal ==
    \A p \in PosIds : positions[p].reserved <= positions[p].total

\* A position that was slashed by a direct call and carries a reservation
C1_Witness ==
    \E p \in PosIds :
        /\ positions[p].reserved > 0
        /\ positions[p].total < bal[Vault(p)] + bal[Wallet("x")]
        /\ bal[Wallet("x")] > 0

\* Every redeem_permit call of the model's inputs on session s satisfies P,
\* which reads the call's arguments and its result.
AllRedeems(s, P(_, _, _, _, _, _)) ==
    \A signer \in Callers, permit_nonce \in PermitNonces, amount \in PermitAmounts,
       expiry_slot \in ExpirySlots :
        \A ix0 \in PermitIxs(s, sessions[s].provider, permit_nonce, amount, expiry_slot) :
            P(signer, permit_nonce, amount, expiry_slot, ix0,
              redeem_permit(St, s, signer, permit_nonce, amount, expiry_slot, ix0,
                            Wallet(signer), now))

\* The checks redeem_permit makes before it looks at the permit sequence
RedeemReachesNonceCheck(s, signer, expiry_slot) ==
    /\ SessionExists(St, s)
    /\ sessions[s].provider = signer
    /\ sessions[s].state = "Active"
    /\ now <= expiry_slot

C3_PermitSequence ==
    \A s \in SessIds :
        /\ Len(redeemed[s]) = sessions[s].next_permit_nonce
        /\ \A i \in 1..Len(redeemed[s]) : redeemed[s][i] = i - 1
        /\ AllRedeems(s, LAMBDA signer, permit_nonce, amount, expiry_slot, ix0, r :
                /\ r.err = "Ok" =>
                        /\ permit_nonce = sessions[s].next_permit_nonce
                        /\ r.st.sess[s].next_permit_nonce = sessions[s].next_permit_nonce + 1
                /\ permit_nonce # sessions[s].next_permit_nonce =>
                        /\ r.err # "Ok"
                        /\ RedeemReachesNonceCheck(s, signer, expiry_slot)
                                => r.err = "InvalidPermitNonce")

\* Two permits redeemed, one after the other
C3_Witness ==
    \E s \in SessIds : redeemed[s] = <<0, 1>> /\ sessions[s].state = "Active"

\* C4: redeem_permit succeeds only when the instruction submitted with it is
\* the signature of the session's user over exactly this session, its
\* provider, and the sequence, amount and expiry of the call.
C4_OnlySignedPermits ==
    \A s \in SessIds :
        AllRedeems(s, LAMBDA signer, permit_nonce, amount, expiry_slot, ix0, r :
            r.err = "Ok" =>
                ix0 = SigIx(sessions[s].user,
                            PermitMessage(s, sessions[s].provider, permit_nonce,
                                          amount, expiry_slot), {}, {}))

\* C5: whatever the interleaving of acknowledgements of several sessions
\* against one position with deposits, withdrawals, releases and slashes, a
\* reserve, called directly or by ack_start, succeeds only if its amount is at
\* most total - reserved at the moment of the call, and the amounts reserved
\* and not yet released or slashed never sum to more than the position's total.
C5_ReservesWithinFree ==
    /\ \A p \in PosIds :
        /\ outstanding[p] <= positions[p].total
        /\ outstanding[p] = positions[p].reserved
        /\ \A signer \in Callers, amount_r \in DirectAmounts :
            reserve(St, p, signer, signer, amount_r).err = "Ok"
                => amount_r <= positions[p].total - positions[p].reserved
    /\ \A s \in SessIds, signer \in Callers, p \in PosIds :
        ack_start(St, s, signer, p, now).err = "Ok"
            => sessions[s].reserve_r <= positions[p].total - positions[p].reserved

\* Two sessions Active at once, both acknowledged against one position
C5_Witness ==
    \E p \in PosIds :
        /\ \A s \in SessIds : sessions[s].state = "Active"
        /\ outstanding[p] = sessions[<<"u1", 0>>].reserve_r + sessions[<<"u1", 1>>].reserve_r

\* C6: a direct call of reserve, release or slash_and_pay signed by a wallet
\* key (a provider, a user or any other signer that is no session) is rejected.
C6_DirectCallsRejected ==
    \A p \in PosIds, k \in Callers, amount_r \in DirectAmounts :
        /\ reserve(St, p, k, k, amount_r).err # "Ok"
        /\ release(St, p, k, k, amount_r).err # "Ok"
        /\ slash_and_pay(St, p, k, k, amount_r, Wallet(k)).err # "Ok"

\* C7: while a session is Active its reserve amount is at most the reserved
\* collateral of the position of the session's provider and mode.
C7_ReserveBacked ==
    \A s \in SessIds :
        sessions[s].state = "Active" =>
            sessions[s].reserve_r
                <= positions[<<sessions[s].provider, sessions[s].mode_id>>].reserved

\* The result of every instruction of the session program called on session
\* s, with every input of the model, satisfies P.
AllSessionCalls(s, P(_)) ==
    /\ \A signer \in Callers, amount \in FundAmounts :
        P(fund_session(St, s, signer, amount))
    /\ \A signer \in Callers, p \in PosIds :
        /\ P(ack_start(St, s, signer, p, now))
        /\ P(claim_sla_failure(St, s, signer, p, Wallet(signer)))
        /\ P(claim_stall(St, s, signer, p, Wallet(signer), now))
        /\ P(terminate_for_cause(St, s, signer, p, Wallet(signer), now))
    /\ \A signer \in Callers :
        /\ P(close_session(St, s, signer))
        /\ P(claim_no_start(St, s, signer, Wallet(signer), now))
    /\ \A p \in PosIds :
        /\ P(finalize_close(St, s, p, Wallet(s[1])))
        /\ P(settle_sla(St, s, p, Wallet(sessions[s].provider), Wallet(s[1]), now))
    /\ P(snapshot_window_start(St, s, now))
    /\ P(evaluate_bandwidth_sla(St, s, now))
    /\ P(finalize_sla_met(St, s, now))
    /\ \A verifier \in Verifiers \cup Outsiders, rtt \in RttValues, mwe \in {0, MaxSlot} :
        P(submit_latency_attestation(St, s, verifier, rtt, 0, mwe))
    /\ \A verifier \in Verifiers \cup Outsiders, bucket_index \in BucketIndexes,
          bucket_start_slot \in Slots, failure_reason \in ReportReasons :
        \A ixPrev \in BucketIxs(s, sessions[s].verifier_pubkey, bucket_index,
                                bucket_start_slot, failure_reason) :
            P(report_bucket_failure(St, s, verifier, bucket_index, bucket_start_slot,
                                    failure_reason, ixPrev, now))
    /\ AllRedeems(s, LAMBDA signer, permit_nonce, amount, expiry_slot, ix0, r : P(r))

\* The result of every instruction of the vault program, with every input of
\* the model, satisfies P.
AllVaultCalls(P(_)) ==
    /\ \A provider \in Providers, mode_id \in Modes, amount \in DepositAmounts \cup {0} :
        P(deposit(St, provider, mode_id, amount))
    /\ \A p \in PosIds, signer \in Callers, amount \in DepositAmounts \cup DirectAmounts :
        /\ P(withdraw(St, p, signer, amount, Wallet(signer)))
        /\ P(reserve(St, p, signer, signer, amount))
        /\ P(release(St, p, signer, signer, amount))
        /\ P(slash_and_pay(St, p, signer, signer, amount, Wallet(signer)))

\* C8, the calls: on a session that is Closed or Claimed every instruction of
\* the session program fails, whatever its inputs.
C8_TerminalCallsFail ==
    \A s \in SessIds :
        sessions[s].state \in TerminalStates
            => AllSessionCalls(s, LAMBDA r : r.err # "Ok")

\* C8, the steps: no step changes a field of a session that is Closed or
\* Claimed, or the balance of its escrow.
C8_TerminalStep ==
    \A s \in SessIds :
        sessions[s].state \in TerminalStates
            => sessions'[s] = sessions[s] /\ bal'[Escrow(s)] = bal[Escrow(s)]

\* C8: once a session is Closed or Claimed, every operation on it fails and
\* neither a field of the session nor the balance of its escrow changes again.
C8_TerminalFrozen == [](C8_TerminalCallsFail) /\ [][C8_TerminalStep]_vars

\* A Closed session whose user holds what a funding would move and whose
\* provider's position exists, with time left on the clock
C8_Witness ==
    \E s \in SessIds :
        /\ sessions[s].state = "Closed"
        /\ \E amount \in FundAmounts : bal[Wallet(sessions[s].user)] >= amount
        /\ PositionExists(St, <<sessions[s].provider, sessions[s].mode_id>>)
        /\ now < MaxSlot

\* The state changes of the claim: creation, and the edges it lists
ClaimedEdges ==
    {<<"None", "Open">>, <<"Open", "Active">>, <<"Open", "Closing">>,
     <<"Active", "Closing">>, <<"Closing", "Closed">>, <<"Open", "Claimed">>,
     <<"Active", "Claimed">>}

\* C9 as claimed: a session's state changes only along Open to Active, Open or
\* Active to Closing, Closing to Closed, Open to Claimed and Active to Claimed.
C9_ClaimedEdgesOnly ==
    [][\A s \in SessIds :
        sessions'[s].state # sessions[s].state
            => <<sessions[s].state, sessions'[s].state>> \in ClaimedEdges]_vars

\* C9: a session's state changes only along the edges of the claim and along
\* Active to Closed, which only a bid session takes, with its SLA Met and no
\* failed bucket; every other entry to Closed is from Closing.
C9_Edges ==
    [][\A s \in SessIds :
        sessions'[s].state # sessions[s].state
            => \/ <<sessions[s].state, sessions'[s].state>> \in ClaimedEdges
               \/ /\ sessions[s].state = "Active" /\ sessions'[s].state = "Closed"
                  /\ sessions[s].is_bid
                  /\ sessions[s].buckets_failed = 0
                  /\ sessions'[s].sla_status = "Met"]_vars

\* A session settled as Met: Closed, its escrow paid out to the provider
C9_Witness ==
    \E s \in SessIds :
        /\ sessions[s].state = "Closed"
        /\ sessions[s].sla_status = "Met"
        /\ \E amount \in FundAmounts : bal[Wallet(sessions[s].provider)] >= amount

ClaimFailsNested(s) ==
    \E p \in PosIds :
        LET r == claim_stall(St, s, sessions[s].user, p, Wallet(sessions[s].user), now)
        IN  /\ sessions[s].state = "Active"
            /\ r.err = "PayoutExceedsReserved"
            /\ r.st.sess[s].state = "Claimed"

\* An Open session whose ack_start fails in reserve after the handler made
\* it Active and acknowledged
AckFailsNested(s) ==
    \E p \in PosIds :
        LET r == ack_start(St, s, sessions[s].provider, p, now)
        IN  /\ sessions[s].state = "Open"
            /\ r.err = "InsufficientFreeCollateral"
            /\ r.st.sess[s].state = "Active"
            /\ r.st.sess[s].acked

C10_AckWitness == \E s \in SessIds : AckFailsNested(s)

\* ------------------------------------------------------------------------
\* C11 .. C20
\* ------------------------------------------------------------------------
\* Token accounts that hold more tokens after the call than before
Credited(r) == {a \in TokenAccounts : r.st.bal[a] > St.bal[a]}

\* C11: every token that leaves the escrow of a session through
\* finalize_close or settle_sla is credited to the session's user or
\* provider, whoever calls and whatever destination accounts the call names.
C11_EscrowPaysParties ==
    \A s \in MainSessions :
        LET parties == {Wallet(sessions[s].user), Wallet(sessions[s].provider)}
            PaysParties(r) ==
                (r.err = "Ok" /\ r.st.bal[Escrow(s)] < bal[Escrow(s)])
                    => Credited(r) \subseteq parties
        IN  \A p \in PosIds, d1 \in Keys, d2 \in Keys :
                /\ PaysParties(finalize_close(St, s, p, Wallet(d1)))
                /\ PaysParties(settle_sla(St, s, p, Wallet(d1), Wallet(d2), now))

\* What C12 says of the call ack_start(s, signer, p) at the current state,
\* with q the position whose collateral is judged
AckStartHolds(s, signer, p, q) ==
    LET session == sessions[s]
        r == ack_start(St, s, signer, p, now)
        after == r.st.sess[s]
    IN  r.err = "Ok" =>
            /\ signer = session.provider
            /\ session.state = "Open" /\ ~session.acked
            /\ now <= session.start_deadline_slot
            /\ PositionExists(St, q)
            /\ saturating_sub(positions[q].total, positions[q].reserved) >= session.reserve_r
            /\ after.state = "Active" /\ after.acked
            /\ r.st.pos[q].reserved = positions[q].reserved + session.reserve_r
            /\ after.last_progress_slot = now
            /\ session.is_bid => after.sla_status = "Pending"
            /\ \A signer2 \in Callers, p2 \in PosIds, slot \in now..MaxSlot :
                    ack_start(r.st, s, signer2, p2, slot).err # "Ok"

\* C12: ack_start succeeds only for the session's provider, only on an Open
\* session not yet acked, only up to the start deadline and only if the
\* position of the session's provider has free collateral of at least the
\* reserve amount; on success the session is Active and acked, that
\* position's reserved grows by exactly the reserve amount, last progress is
\* now and a bid session's SLA status is Pending; a second ack always fails.
C12_AckStart ==
    \A s \in SessIds, signer \in Callers, p \in PosIds :
        AckStartHolds(s, signer, p, <<sessions[s].provider, sessions[s].mode_id>>)

\* The same statement about the position account the call names
C12_AckOnNamedPosition ==
    \A s \in SessIds, signer \in Callers, p \in PosIds : AckStartHolds(s, signer, p, p)

C12_NamedWitness ==
    \E s \in SessIds :
        /\ sessions[s].state = "Active" /\ sessions[s].is_bid
        /\ sessions[s].sla_status = "Pending" /\ sessions[s].last_progress_slot = 1
        /\ positions[<<"p1", 1>>].reserved = sessions[s].reserve_r

\* Some call of ack_start on s succeeds now
AckCanSucceed(s) ==
    \E signer \in Callers, p \in PosIds : ack_start(St, s, signer, p, now).err = "Ok"

\* Some call of claim_no_start on s succeeds now
ClaimNoStartCanSucceed(s) ==
    \E signer \in Callers, d \in Keys :
        claim_no_start(St, s, signer, Wallet(d), now).err = "Ok"

\* C13: claim_no_start succeeds only on an Open session that was never
\* acknowledged and only after the start deadline; it moves the session to
\* Claimed, pays the whole escrow balance to the account the user names and
\* changes no collateral position; at no state can both ack_start and
\* claim_no_start succeed on the same session.
C13_ClaimNoStart ==
    \A s \in SessIds :
        /\ \A signer \in Callers, d \in Keys :
            LET session == sessions[s]
                r == claim_no_start(St, s, signer, Wallet(d), now)
            IN  r.err = "Ok" =>
                    /\ signer = session.user
                    /\ session.state = "Open" /\ ~session.acked
                    /\ now > session.start_deadline_slot
                    /\ r.st.sess[s].state = "Claimed"
                    /\ r.st.bal[Escrow(s)] = 0
                    /\ r.st.bal[Wallet(d)] = bal[Wallet(d)] + bal[Escrow(s)]
                    /\ r.st.pos = positions
        /\ ~(AckCanSucceed(s) /\ ClaimNoStartCanSucceed(s))

\* A funded session was claimed for no start: the user has the funds back
C13_Witness ==
    \E s \in SessIds :
        /\ sessions[s].state = "Claimed" /\ ~sessions[s].acked
        /\ now > sessions[s].start_deadline_slot
        /\ bal[Escrow(s)] = 0 /\ bal[Wallet(sessions[s].user)] = 10000
        /\ PositionExists(St, <<sessions[s].provider, sessions[s].mode_id>>)

\* What C14 says of the call claim_stall(s, signer, p, d) at the current
\* state, with q the position that is to be slashed
ClaimStallHolds(s, signer, p, d, q) ==
    LET session == sessions[s]
        r == claim_stall(St, s, signer, p, Wallet(d), now)
        stall_deadline == session.last_progress_slot + session.stall_timeout_slots
        payout == Min(session.base_coverage_p, session.reserve_r)
    IN  /\ r.err = "Ok" =>
            /\ session.state = "Active" /\ session.acked
            /\ now > stall_deadline
            /\ r.st.sess[s].state = "Claimed"
            /\ PositionExists(St, q)
            /\ r.st.pos[q].reserved = positions[q].reserved - payout
            /\ r.st.pos[q].total = positions[q].total - payout
            /\ r.st.bal[Vault(q)] = bal[Vault(q)] - payout
            /\ r.st.bal[Wallet(d)] = bal[Wallet(d)] + payout + bal[Escrow(s)]
            /\ r.st.bal[Escrow(s)] = 0
        /\ (session.state = "Active" /\ session.acked /\ now <= stall_deadline) =>
            /\ r.err # "Ok"
            /\ (signer = session.user /\ PositionExists(St, p))
                    => r.err = "StallTimeoutNotReached"

\* last_progress_slot is written only by an ack and by a redeemed permit, and
\* both write the current time
ProgressStep ==
    \A s \in SessIds :
        LET started == ~sessions[s].acked /\ sessions'[s].acked
            permit == Len(redeemed'[s]) = Len(redeemed[s]) + 1
        IN  /\ (started \/ permit) => sessions'[s].last_progress_slot = now
            /\ sessions'[s].last_progress_slot # sessions[s].last_progress_slot
                    => (started \/ permit)

ClaimStallOnProviderPosition ==
    \A s \in SessIds, signer \in Callers, p \in PosIds, d \in Keys :
        ClaimStallHolds(s, signer, p, d, <<sessions[s].provider, sessions[s].mode_id>>)

ClaimStallOnNamedPosition ==
    \A s \in SessIds, signer \in Callers, p \in PosIds, d \in Keys :
        ClaimStallHolds(s, signer, p, d, p)

\* C14: claim_stall succeeds only on an Active acknowledged session and only
\* when now > last_progress + stall_timeout, last_progress being the time of
\* the ack or of the latest redeemed permit; up to that time it fails with
\* StallTimeoutNotReached; on success it slashes exactly
\* min(base coverage, reserve amount) from the position of the session's
\* provider to the user, refunds the remaining escrow to the user and moves
\* the session to Claimed.
C14_ClaimStall == [](ClaimStallOnProviderPosition) /\ [][ProgressStep]_vars

\* The same statement about the position account the call names
C14_ClaimStallOnNamedPosition == [](ClaimStallOnNamedPosition) /\ [][ProgressStep]_vars

C14_NamedWitness ==
    \E s \in SessIds :
        /\ sessions[s].state = "Claimed" /\ sessions[s].acked
        /\ Len(redeemed[s]) > 0
        /\ positions[<<"p1", 1>>].total = 500

\* C15: redeem_permit succeeds only while the session is Active, only with
\* now <= expiry and only with amount <= the escrow balance; on success
\* exactly amount moves from the escrow to the account the provider names,
\* total_spent grows by exactly amount and last progress becomes now; the
\* escrow balance is never negative.
C15_RedeemPermit ==
    \A s \in SessIds :
        /\ bal[Escrow(s)] >= 0
        /\ AllRedeems(s, LAMBDA signer, permit_nonce, amount, expiry_slot, ix0, r :
                r.err = "Ok" =>
                    /\ sessions[s].state = "Active"
                    /\ signer = sessions[s].provider
                    /\ now <= expiry_slot
                    /\ amount <= bal[Escrow(s)]
                    /\ r.st.bal[Escrow(s)] = bal[Escrow(s)] - amount
                    /\ r.st.bal[Wallet(signer)] = bal[Wallet(signer)] + amount
                    /\ r.st.sess[s].total_spent = sessions[s].total_spent + amount
                    /\ r.st.sess[s].last_progress_slot = now
                    /\ r.st.bal[Escrow(s)] >= 0)

\* A permit of 1000 was redeemed against an escrow of 10000 at the current
\* time, and a permit of 10000 now exceeds the escrow
C15_Witness ==
    \E s \in SessIds :
        /\ sessions[s].state = "Active"
        /\ sessions[s].total_spent = 1000 /\ bal[Escrow(s)] = 9000
        /\ bal[Wallet(sessions[s].provider)] = 1000
        /\ sessions[s].last_progress_slot = now /\ now > 0
        /\ \E amount \in PermitAmounts : amount > bal[Escrow(s)]

\* What C16 says of the call finalize_close(s, p, d) at the current state,
\* with q the position that is to be released and w the token account that
\* is to be refunded
FinalizeCloseHolds(s, p, d, q, w) ==
    LET session == sessions[s]
        r == finalize_close(St, s, p, Wallet(d))
        after == r.st.sess[s]
    IN  r.err = "Ok" =>
            /\ session.state = "Closing" /\ after.state = "Closed"
            /\ session.acked =>
                /\ PositionExists(St, q)
                /\ r.st.pos[q].reserved = positions[q].reserved - session.reserve_r
                /\ \A o \in PosIds \ {q} : r.st.pos[o] = positions[o]
            /\ ~session.acked => r.st.pos = positions
            /\ (session.is_bid /\ session.sla_status = "Pending")
                    => after.sla_status = "Met"
            /\ r.st.bal[Escrow(s)] = 0
            /\ r.st.bal[w] = bal[w] + bal[Escrow(s)]
            /\ (/\ session.max_spend = 10000 /\ session.price_per_chunk = 100
                /\ ~session.is_bid /\ session.acked
                /\ session.total_spent = 1000 /\ bal[Escrow(s)] = 9000)
                    => /\ positions[q].reserved - r.st.pos[q].reserved = 750
                       /\ r.st.bal[w] - bal[w] = 9000

\* C16: finalize_close succeeds only in Closing and moves the session to
\* Closed; an acknowledged session's full reserve amount is released on the
\* position of its provider, a session never acknowledged releases nothing;
\* a bid session still Pending becomes Met; the whole remaining escrow is
\* refunded to the user.  After open(max_spend 10000, price 100), fund 10000,
\* ack, redeem 1000 and close it releases 750 and refunds 9000.
C16_FinalizeClose ==
    \A s \in SessIds, p \in PosIds, d \in Keys :
        FinalizeCloseHolds(s, p, d, <<sessions[s].provider, sessions[s].mode_id>>,
                           Wallet(sessions[s].user))

\* The same statement about the position and the token account the call names
C16_FinalizeCloseOnNamedAccounts ==
    \A s \in SessIds, p \in PosIds, d \in Keys : FinalizeCloseHolds(s, p, d, p, Wallet(d))

\* The refund alone is as named by the caller, the release as C16 says
C16_ReleaseOnProviderPosition ==
    \A s \in SessIds, p \in PosIds, d \in Keys :
        FinalizeCloseHolds(s, p, d, <<sessions[s].provider, sessions[s].mode_id>>, Wallet(d))

C16_NamedWitness ==
    \E s \in SessIds :
        /\ sessions[s].state = "Closed" /\ sessions[s].acked
        /\ sessions[s].total_spent = 1000
        /\ bal[Escrow(s)] = 0 /\ bal[Wallet(sessions[s].user)] = 19000
        /\ positions[<<"p1", 1>>].total = 1000 /\ positions[<<"p1", 1>>].reserved = 0

\* Every report_bucket_failure call of the model's inputs on session s
\* satisfies P, which reads the call's arguments.
AllReports(s, P(_, _, _, _, _)) ==
    \A verifier \in Verifiers \cup Outsiders, bucket_index \in BucketIndexes,
       bucket_start_slot \in Slots, failure_reason \in ReportReasons :
        \A ixPrev \in BucketIxs(s, sessions[s].verifier_pubkey, bucket_index,
                                bucket_start_slot, failure_reason) :
            P(verifier, bucket_index, bucket_start_slot, failure_reason, ixPrev)

\* The state with the bit of bucket_index cleared in the bitmap of session s
BitCleared(s, bucket_index) ==
    [St EXCEPT !.sess[s].buckets_failed_bitmap = @ \ {bucket_index}]

\* The report of an index already marked failed that passes every check but
\* the one of the bitmap
IsValidDuplicate(s, verifier, bucket_index, bucket_start_slot, failure_reason, ixPrev) ==
    /\ bucket_index \in sessions[s].buckets_failed_bitmap
    /\ report_bucket_failure(BitCleared(s, bucket_index), s, verifier, bucket_index,
                             bucket_start_slot, failure_reason, ixPrev, now).err = "Ok"

\* C17: a report of a bucket index already marked failed, valid in everything
\* else, returns BucketAlreadyReported and changes nothing: bitmap, failed
\* counter, accrued penalty, failure reason, first-violation time and
\* termination deadline keep their values.
C17_DuplicateReport ==
    \A s \in SessIds :
        AllReports(s, LAMBDA verifier, bucket_index, bucket_start_slot, failure_reason, ixPrev :
            IsValidDuplicate(s, verifier, bucket_index, bucket_start_slot,
                             failure_reason, ixPrev) =>
                LET r == report_bucket_failure(St, s, verifier, bucket_index,
                                               bucket_start_slot, failure_reason, ixPrev, now)
                    after == Commit(St, r).sess[s]
                IN  /\ r.err = "BucketAlreadyReported"
                    /\ Commit(St, r) = St
                    /\ after.buckets_failed_bitmap = sessions[s].buckets_failed_bitmap
                    /\ after.buckets_failed = sessions[s].buckets_failed
                    /\ after.penalty_accrued = sessions[s].penalty_accrued
                    /\ after.sla_failure_reason = sessions[s].sla_failure_reason
                    /\ after.first_violation_slot = sessions[s].first_violation_slot
                    /\ after.terminate_deadline_slot = sessions[s].terminate_deadline_slot)

\* A bucket was reported for latency, and a report of the same index for
\* another reason at a later time is valid but for the bitmap
C17_Witness ==
    \E s \in SessIds :
        /\ sessions[s].sla_failure_reason = "Latency"
        /\ sessions[s].first_violation_slot < now
        /\ \E bucket_index \in BucketIndexes, bucket_start_slot \in Slots :
              IsValidDuplicate(s, sessions[s].verifier_pubkey, bucket_index, bucket_start_slot,
                  "PrivacyMode",
                  SigIx(sessions[s].verifier_pubkey,
                        BucketMessage(s, bucket_index, bucket_start_slot, "PrivacyMode"),
                        {}, {}))

\* The failed-bucket counter of a bid session counts the bits of its bitmap
\* and is within the number of buckets
BucketsCounted ==
    \A s \in SessIds :
        sessions[s].is_bid =>
            /\ sessions[s].buckets_failed <= sessions[s].buckets_total
            /\ sessions[s].buckets_failed = Cardinality(sessions[s].buckets_failed_bitmap)

\* No step clears a bit, and the counter grows by one with every new bit
BitsKept ==
    \A s \in SessIds :
        SessionExists(St, s) =>
            /\ sessions[s].buckets_failed_bitmap \subseteq sessions'[s].buckets_failed_bitmap
            /\ sessions'[s].buckets_failed - sessions[s].buckets_failed
                    = Cardinality(sessions'[s].buckets_failed_bitmap
                                    \ sessions[s].buckets_failed_bitmap)

\* C18: in every reachable state every bid session has
\* buckets_failed <= buckets_total and buckets_failed equal to the number of
\* distinct indexes marked in the bitmap; each index counts at most once
\* whatever the order and repetition of the reports; a bit once set is never
\* cleared.
C18_BucketCount == [](BucketsCounted) /\ [][BitsKept]_vars

\* Every bucket of the window was reported
C18_Witness ==
    \E s \in SessIds :
        /\ sessions[s].is_bid /\ sessions[s].buckets_total = 2
        /\ sessions[s].buckets_failed = 2
        /\ sessions[s].buckets_failed_bitmap = {0, 1}

\* A session's termination deadline is unset before its first accepted bucket
\* failure and first-violation time + termination window after it, and no
\* report later than a set deadline is accepted
DeadlineSet ==
    \A s \in SessIds :
        LET session == sessions[s]
        IN  /\ session.buckets_failed = 0 =>
                session.first_violation_slot = 0 /\ session.terminate_deadline_slot = 0
            /\ session.buckets_failed > 0 =>
                /\ session.terminate_deadline_slot
                        = session.first_violation_slot + session.terminate_window_slots
                /\ now > session.terminate_deadline_slot =>
                    AllReports(s, LAMBDA verifier, bucket_index, bucket_start_slot,
                                         failure_reason, ixPrev :
                        report_bucket_failure(St, s, verifier, bucket_index,
                            bucket_start_slot, failure_reason, ixPrev, now).err # "Ok")

\* The first accepted failure writes the first-violation time and the
\* deadline; no later step writes either
DeadlineKept ==
    \A s \in SessIds :
        LET session == sessions[s]
            after == sessions'[s]
        IN  /\ (SessionExists(St, s) /\ session.buckets_failed = 0
                    /\ after.buckets_failed > 0) =>
                /\ after.first_violation_slot = now
                /\ after.terminate_deadline_slot = now + session.terminate_window_slots
            /\ (after.buckets_failed = session.buckets_failed
                    \/ session.buckets_failed > 0) =>
                /\ after.first_violation_slot = session.first_violation_slot
                /\ after.terminate_deadline_slot = session.terminate_deadline_slot

C20_ReportAccepted ==
    \A s \in SessIds :
        AllReports(s, LAMBDA verifier, bucket_index, bucket_start_slot, failure_reason, ixPrev :
            LET session == sessions[s]
                r == report_bucket_failure(St, s, verifier, bucket_index,
                                           bucket_start_slot, failure_reason, ixPrev, now)
                valid ==
                    /\ session.is_bid
                    /\ session.state = "Active"
                    /\ session.sla_status \in {"Pending", "Violated"}
                    /\ session.sla_window_start_slot <= now
                    /\ now <= session.sla_window_end_slot
                    /\ bucket_index < session.buckets_total
                    /\ bucket_start_slot
                        = session.sla_window_start_slot + bucket_index * session.bucket_slots
            IN  /\ r.err = "Ok" => valid
                /\ r.err # "Ok" =>
                    /\ Commit(St, r).sess[s].buckets_failed_bitmap
                            = session.buckets_failed_bitmap
                    /\ Commit(St, r).sess[s].buckets_failed = session.buckets_failed)

\* The second bucket alone was reported with its aligned start, and the same
\* report with the start of the first bucket is rejected
C20_Witness ==
    \E s \in SessIds :
        /\ sessions[s].state = "Active"
        /\ sessions[s].buckets_failed_bitmap = {1}
        /\ report_bucket_failure(St, s, sessions[s].verifier_pubkey, 0,
              sessions[s].sla_window_start_slot + 1, "Latency",
              SigIx(sessions[s].verifier_pubkey,
                    BucketMessage(s, 0, sessions[s].sla_window_start_slot + 1, "Latency"),
                    {}, {}), now).err = "BucketSlotMismatch"

\* ------------------------------------------------------------------------
\* C21 .. C30
\* ------------------------------------------------------------------------
\* Ed25519 instructions placed before a report of (bucket_index,
\* bucket_start_slot, failure_reason) on session s: those of BucketIxs and the
\* verifier's attestations of another session, index, start or reason
AttestationIxs(s, bucket_index, bucket_start_slot, failure_reason) ==
    LET v == sessions[s].verifier_pubkey
    IN  BucketIxs(s, v, bucket_index, bucket_start_slot, failure_reason)
        \cup {SigIx(v, BucketMessage(t, bucket_index, bucket_start_slot, failure_reason),
                    {}, {}) : t \in SessIds}
        \cup {SigIx(v, BucketMessage(s, i, bucket_start_slot, failure_reason), {}, {})
                    : i \in BucketIndexes}
        \cup {SigIx(v, BucketMessage(s, bucket_index, b, failure_reason), {}, {})
                    : b \in Slots}
        \cup {SigIx(v, BucketMessage(s, bucket_index, bucket_start_slot, f), {}, {})
                    : f \in ReportReasons}

\* C21: report_bucket_failure marks a bucket failed only if the preceding
\* instruction is an attestation signed by the session's verifier over
\* exactly (protocol id, this session, index, bucket_start, reason); the
\* verifier's attestation of another session, index, bucket_start or reason,
\* and an attestation signed by any other key, mark no bucket.
C21_OnlyVerifierAttestation ==
    \A s \in SessIds, verifier \in Verifiers \cup Outsiders, bucket_index \in BucketIndexes,
       bucket_start_slot \in Slots, failure_reason \in ReportReasons :
        \A ixPrev \in AttestationIxs(s, bucket_index, bucket_start_slot, failure_reason) :
            LET r == report_bucket_failure(St, s, verifier, bucket_index,
                                           bucket_start_slot, failure_reason, ixPrev, now)
            IN  r.err = "Ok" =>
                    /\ ixPrev.kind = "sig"
                    /\ ixPrev.signer = sessions[s].verifier_pubkey
                    /\ ixPrev.msg = BucketMessage(s, bucket_index, bucket_start_slot,
                                                  failure_reason)

\* The same statement for the attestations that carry one signed message and
\* nothing else
C21_PlainAttestations ==
    \A s \in SessIds, verifier \in Verifiers \cup Outsiders, bucket_index \in BucketIndexes,
       bucket_start_slot \in Slots, failure_reason \in ReportReasons :
        \A ixPrev \in AttestationIxs(s, bucket_index, bucket_start_slot, failure_reason) :
            LET r == report_bucket_failure(St, s, verifier, bucket_index,
                                           bucket_start_slot, failure_reason, ixPrev, now)
            IN  (r.err = "Ok" /\ ixPrev.keys = {} /\ ixPrev.msgs = {}) =>
                    /\ verifier = sessions[s].verifier_pubkey
                    /\ ixPrev.kind = "sig"
                    /\ ixPrev.signer = sessions[s].verifier_pubkey
                    /\ ixPrev.msg = BucketMessage(s, bucket_index, bucket_start_slot,
                                                  failure_reason)

\* The penalty of a bid session:
\* min(penalty per bucket * failed buckets, accrued penalty, reserve)
PenaltyDue(session) ==
    Min(Min(session.bucket_penalty * session.buckets_failed, session.penalty_accrued),
        session.reserve_r)

\* C22: terminate_for_cause succeeds only for the session's user, only on an
\* Active session whose SLA status is Violated and only at
\* now <= termination deadline; on success it slashes exactly
\* min(penalty per bucket * failed count, accrued penalty, reserve) to the
\* user, releases exactly the rest of the reserve, refunds the whole escrow
\* to the user and marks the session TerminatedForCause; a second call fails
\* and changes nothing.
C22_TerminateForCause ==
    \A s \in SessIds, signer \in Callers, p \in PosIds, d \in Keys :
        LET session == sessions[s]
            r == terminate_for_cause(St, s, signer, p, Wallet(d), now)
            penalty == PenaltyDue(session)
        IN  /\ r.err = "Ok" =>
                /\ signer = session.user
                /\ session.is_bid /\ session.state = "Active"
                /\ session.sla_status = "Violated"
                /\ now <= session.terminate_deadline_slot
                /\ r.st.pos[p].total = positions[p].total - penalty
                /\ r.st.pos[p].reserved = positions[p].reserved - session.reserve_r
                /\ r.st.bal[Vault(p)] = bal[Vault(p)] - penalty
                /\ r.st.bal[Wallet(d)] = bal[Wallet(d)] + penalty + bal[Escrow(s)]
                /\ r.st.bal[Escrow(s)] = 0
                /\ r.st.sess[s].sla_status = "TerminatedForCause"
                /\ r.st.sess[s].terminated_for_cause
                /\ \A signer2 \in Callers, p2 \in PosIds, d2 \in Keys, slot \in now..MaxSlot :
                        terminate_for_cause(r.st, s, signer2, p2, Wallet(d2), slot).err # "Ok"
            /\ session.terminated_for_cause =>
                r.err # "Ok" /\ Commit(St, r) = St

\* A session with one failed bucket of two was terminated for cause: half of
\* the reserve was slashed, the rest released
C22_Witness ==
    \E s \in SessIds :
        LET session == sessions[s]
            q == <<session.provider, session.mode_id>>
        IN  /\ session.terminated_for_cause /\ session.buckets_failed = 1
            /\ session.bucket_penalty > 0
            /\ 2 * session.bucket_penalty <= session.reserve_r
            /\ positions[q].reserved = 0
            /\ positions[q].total = 2000 - session.bucket_penalty
            /\ bal[Wallet(session.user)] = 10000 + session.bucket_penalty

\* What C23 says of the call settle_sla(s, p, d1, d2) at the current state,
\* with wp and wu the token accounts that are to receive the provider's and
\* the user's payments
SettleSlaHolds(s, p, d1, d2, wp, wu) ==
    LET session == sessions[s]
        r == settle_sla(St, s, p, Wallet(d1), Wallet(d2), now)
        after == r.st.sess[s]
        penalty == PenaltyDue(session)
    IN  r.err = "Ok" =>
            /\ session.is_bid /\ session.state = "Active"
            /\ now > session.sla_window_end_slot
            /\ session.sla_status \in {"Pending", "Violated"}
            /\ ~session.terminated_for_cause
            /\ \A q \in PosIds, e1 \in Keys, e2 \in Keys, slot \in now..MaxSlot :
                    settle_sla(r.st, s, q, Wallet(e1), Wallet(e2), slot).err # "Ok"
            /\ r.st.pos[p].reserved = positions[p].reserved - session.reserve_r
            /\ r.st.bal[Escrow(s)] = 0
            /\ session.buckets_failed = 0 =>
                /\ after.sla_status = "Met"
                /\ r.st.pos[p].total = positions[p].total
                /\ r.st.bal[wp] = bal[wp] + bal[Escrow(s)]
            /\ session.buckets_failed > 0 =>
                /\ after.sla_status = "Failed"
                /\ r.st.pos[p].total = positions[p].total - penalty
                /\ r.st.bal[Vault(p)] = bal[Vault(p)] - penalty
                /\ r.st.bal[wu] = bal[wu] + penalty + bal[Escrow(s)]

\* C23: settle_sla succeeds, for any caller, only on an Active bid session at
\* now > SLA window end with SLA status Pending or Violated that was not
\* terminated for cause, and at most once per session; with no failed bucket
\* the status becomes Met, the full reserve is released and the whole escrow
\* is paid to the provider; with failed buckets the status becomes Failed,
\* min(penalty per bucket * failed count, accrued penalty, reserve) is
\* slashed to the user, the rest of the reserve is released and the whole
\* escrow is refunded to the user.
C23_SettleSla ==
    \A s \in SessIds, p \in PosIds, d1 \in Keys, d2 \in Keys :
        SettleSlaHolds(s, p, d1, d2, Wallet(sessions[s].provider), Wallet(sessions[s].user))

\* The same statement about the token accounts the call names
C23_SettleSlaOnNamedAccounts ==
    \A s \in SessIds, p \in PosIds, d1 \in Keys, d2 \in Keys :
        SettleSlaHolds(s, p, d1, d2, Wallet(d1), Wallet(d2))

C23_MetWitness ==
    \E s \in SessIds :
        /\ sessions[s].state = "Closed" /\ sessions[s].sla_status = "Met"
        /\ now > sessions[s].sla_window_end_slot /\ sessions[s].total_spent = 1000
        /\ bal[Wallet(sessions[s].provider)] >= 10000

C23_FailedWitness ==
    \E s \in SessIds :
        /\ sessions[s].state = "Claimed" /\ sessions[s].sla_status = "Failed"
        /\ sessions[s].buckets_failed = 2 /\ ~sessions[s].terminated_for_cause
        /\ bal[Wallet(sessions[s].user)] > 10000

\* The results of the four operations that slash the collateral of the
\* provider of session s, called on state st at time slot with every caller
\* and position; settle_sla counts when the session has a failed bucket
SlashResults(st, s, slot) ==
    {claim_stall(st, s, signer, p, Wallet(signer), slot) :
            signer \in Callers, p \in PosIds}
    \cup {claim_sla_failure(st, s, signer, p, Wallet(signer)) :
            signer \in Callers, p \in PosIds}
    \cup {terminate_for_cause(st, s, signer, p, Wallet(signer), slot) :
            signer \in Callers, p \in PosIds}
    \cup IF st.sess[s].buckets_failed > 0
         THEN {settle_sla(st, s, p, Wallet(st.sess[s].provider), Wallet(st.sess[s].user), slot) :
                    p \in PosIds}
         ELSE {}

\* State st with the reserve of another session of the same size as that of
\* s deposited and reserved on every position
OtherReserved(st, s) ==
    LET amount == st.sess[s].reserve_r
    IN  [st EXCEPT
            !.pos = [q \in PosIds |->
                        IF PositionExists(st, q)
                        THEN [st.pos[q] EXCEPT !.total = @ + amount, !.reserved = @ + amount]
                        ELSE st.pos[q]],
            !.bal = [a \in TokenAccounts |->
                        IF a \in {Vault(q) : q \in PosIds} /\ PositionExists(st, a[2])
                        THEN st.bal[a] + amount ELSE st.bal[a]]]

\* A slashing operation that succeeds leaves the session Claimed, and on a
\* Claimed session none of them succeeds, now or at any later time, whether
\* or not the position holds the reserve of another session
SlashedOnce ==
    \A s \in SessIds :
        /\ \A r \in SlashResults(St, s, now) :
            r.err = "Ok" =>
                /\ r.st.sess[s].state = "Claimed"
                /\ \A slot \in now..MaxSlot :
                    \A r2 \in SlashResults(r.st, s, slot)
                                \cup SlashResults(OtherReserved(r.st, s), s, slot) :
                        r2.err # "Ok"
        /\ sessions[s].state = "Claimed" =>
            \A slot \in now..MaxSlot :
                \A r \in SlashResults(St, s, slot)
                            \cup SlashResults(OtherReserved(St, s), s, slot) :
                    r.err # "Ok"

\* A Claimed session stays Claimed
ClaimedKept ==
    \A s \in SessIds : sessions[s].state = "Claimed" => sessions'[s].state = "Claimed"

\* C24: the collateral of a session's provider is slashed at most once: over
\* any sequence of operations at most one of claim_stall, claim_sla_failure,
\* terminate_for_cause and a failed settle_sla succeeds for a session, also
\* when the window-level and the bucketed SLA paths are both used on it.
C24_SlashedAtMostOnce == [](SlashedOnce) /\ [][ClaimedKept]_vars

\* A session with a failed bucket whose window-level SLA also failed was
\* claimed through the window-level path
C24_Witness ==
    \E s \in SessIds :
        /\ sessions[s].state = "Claimed" /\ sessions[s].sla_status = "Failed"
        /\ sessions[s].buckets_failed > 0 /\ sessions[s].latency_attested
        /\ now <= sessions[s].sla_window_end_slot

\* What C25 says of the call claim_sla_failure(s, signer, p, d) at the
\* current state, with q the position that is to be slashed
ClaimSlaFailureHolds(s, signer, p, d, q) ==
    LET session == sessions[s]
        r == claim_sla_failure(St, s, signer, p, Wallet(d))
        payout == Min(((session.base_coverage_p + session.bid_coverage_p)
                            * session.fail_payout_bps) \div 10000,
                      session.reserve_r)
    IN  r.err = "Ok" =>
            /\ signer = session.user
            /\ session.is_bid /\ session.state = "Active"
            /\ session.sla_status = "Failed"
            /\ PositionExists(St, q)
            /\ r.st.pos[q].total = positions[q].total - payout
            /\ r.st.pos[q].reserved = positions[q].reserved - session.reserve_r
            /\ r.st.bal[Vault(q)] = bal[Vault(q)] - payout
            /\ r.st.bal[Wallet(d)] = bal[Wallet(d)] + payout + bal[Escrow(s)]
            /\ r.st.bal[Escrow(s)] = 0
            /\ r.st.sess[s].state = "Claimed"

\* C25: claim_sla_failure succeeds only for the session's user on an Active
\* bid session whose SLA status is Failed; it pays exactly
\* min((base coverage + bid coverage) * fail_payout_bps / 10000, reserve)
\* from the collateral of the session's provider to the user, releases the
\* rest of the reserve, refunds the remaining escrow to the user and moves
\* the session to Claimed.
C25_ClaimSlaFailure ==
    \A s \in SessIds, signer \in Callers, p \in PosIds, d \in Keys :
        ClaimSlaFailureHolds(s, signer, p, d, <<sessions[s].provider, sessions[s].mode_id>>)

\* The same statement about the position account the call names
C25_ClaimSlaFailureOnNamedPosition ==
    \A s \in SessIds, signer \in Callers, p \in PosIds, d \in Keys :
        ClaimSlaFailureHolds(s, signer, p, d, p)

C25_NamedWitness ==
    \E s \in SessIds :
        /\ sessions[s].state = "Claimed" /\ sessions[s].sla_status = "Failed"
        /\ sessions[s].buckets_failed = 0
        /\ positions[<<"p1", 1>>].reserved = 0
        /\ positions[<<"p1", 1>>].total < 2000
        /\ bal[Wallet(sessions[s].user)] > 10000

\* Contents the verifier allow-list of the registry account can have
Allowlists == SUBSET (Verifiers \cup Outsiders)

\* C26: submit_latency_attestation succeeds only when its signer is on the
\* verifier allow-list of the registry; an attestation signed by an address
\* that is not on it is rejected and changes neither the SLA status nor the
\* failure reason.
C26_OnlyAllowlistedVerifier ==
    \A s \in SessIds, allowlist \in Allowlists, verifier \in Verifiers \cup Outsiders,
       rtt \in RttValues, mwe \in {0, MaxSlot} :
        LET r == submit_latency_attestation(St, s, verifier, rtt, 0, mwe)
            after == Commit(St, r).sess[s]
        IN  /\ r.err = "Ok" => verifier \in allowlist
            /\ verifier \notin allowlist =>
                /\ after.sla_status = sessions[s].sla_status
                /\ after.sla_failure_reason = sessions[s].sla_failure_reason

\* ------------------------------------------------------------------------
\* C27 .. C30
\* ------------------------------------------------------------------------
\* floor(x * bps / 10000), exact for every x of the word
FloorBps(x, bps) == (x \div 10000) * bps + ((x % 10000) * bps) \div 10000

\* The coverage the formula of the claim gives, in unbounded arithmetic
ClaimedCoverage(max_spend, price_per_chunk) ==
    Min(Max(FloorBps(max_spend, 100) + FloorBps(price_per_chunk, 50),
            FloorBps(max_spend, 500)),
        FloorBps(max_spend, 2000))

\* C27: every successful open_session, whatever its parameters, creates the
\* session in state Open with total_spent 0 and next permit nonce 0 and leaves
\* every token balance as it was; the stored base coverage is
\* min(max(floor(max_spend * 100 / 10000) + floor(price_per_chunk * 50 / 10000),
\* floor(max_spend * 500 / 10000)), floor(max_spend * 2000 / 10000)), a
\* non-bid session's reserve is floor(base coverage * 15000 / 10000), and
\* max_spend 10000 with price_per_chunk 100 gives coverage 500 and reserve 750.
C27_OpenSession ==
    \A s \in SessIds, provider \in Providers, cfg \in OpenConfigs :
        LET r == open_session(St, s, provider, cfg, now)
            after == r.st.sess[s]
        IN  r.err = "Ok" =>
                /\ after.state = "Open"
                /\ after.total_spent = 0
                /\ after.next_permit_nonce = 0
                /\ r.st.bal = bal
                /\ r.st.pos = positions
                /\ after.base_coverage_p
                     = ClaimedCoverage(cfg.max_spend, cfg.price_per_chunk)
                /\ ~cfg.is_bid =>
                     after.reserve_r = FloorBps(after.base_coverage_p, 15000)
                /\ (cfg.max_spend = 10000 /\ cfg.price_per_chunk = 100) =>
                     /\ after.base_coverage_p = 500
                     /\ ~cfg.is_bid => after.reserve_r = 750

\* A plain session of max_spend 10000 and price 100 stands open with coverage
\* 500 and reserve 750
C27_Witness ==
    \E s \in SessIds :
        /\ sessions[s].state = "Open" /\ ~sessions[s].is_bid
        /\ sessions[s].max_spend = 10000 /\ sessions[s].price_per_chunk = 100
        /\ sessions[s].base_coverage_p = 500 /\ sessions[s].reserve_r = 750
        /\ sessions[s].total_spent = 0 /\ sessions[s].next_permit_nonce = 0

\* A session whose price term saturated stands open with the capped coverage
C27_SaturatedWitness ==
    \E s \in SessIds :
        /\ sessions[s].state = "Open"
        /\ MulOverflows(sessions[s].price_per_chunk, INSURANCE_B)
        /\ sessions[s].base_coverage_p = FloorBps(sessions[s].max_spend, 2000)

\* A successful open_session of a bid session with a bucket length had a
\* window of 1 .. 1024 whole buckets and stored their number and the penalty
BucketsSetUp ==
    \A s \in SessIds, provider \in Providers, cfg \in OpenConfigs :
        LET r == open_session(St, s, provider, cfg, now)
            after == r.st.sess[s]
        IN  (cfg.is_bid /\ cfg.bucket_slots > 0 /\ r.err = "Ok") =>
                /\ cfg.sla_window_slots % cfg.bucket_slots = 0
                /\ 1 <= cfg.sla_window_slots \div cfg.bucket_slots
                /\ cfg.sla_window_slots \div cfg.bucket_slots <= 1024
                /\ after.buckets_total = cfg.sla_window_slots \div cfg.bucket_slots
                /\ after.bucket_penalty
                     = (after.reserve_r * cfg.max_penalty_bps)
                         \div (after.buckets_total * 10000)

\* No instruction changes the two values of an existing session
BucketsKept ==
    \A s \in SessIds :
        SessionExists(St, s) =>
            /\ sessions'[s].buckets_total = sessions[s].buckets_total
            /\ sessions'[s].bucket_penalty = sessions[s].bucket_penalty

\* C28: open_session of a bid session with a bucket length succeeds only if
\* the window length is an exact multiple of the bucket length and
\* 1 <= window length / bucket length <= 1024; it then stores buckets_total =
\* window length / bucket length and bucket_penalty = floor(reserve *
\* max_penalty_bps / (buckets_total * 10000)), and no later step changes
\* either value.
C28_BucketSetup == [](BucketsSetUp) /\ [][BucketsKept]_vars

\* A session of two buckets and penalty floor(825 * 3333 / 20000) = 137 has
\* been acknowledged, reported on and terminated with both values as stored
C28_Witness ==
    \E s \in SessIds :
        /\ sessions[s].is_bid /\ sessions[s].state = "Claimed"
        /\ sessions[s].terminated_for_cause
        /\ sessions[s].buckets_failed > 0
        /\ sessions[s].reserve_r = 825
        /\ sessions[s].buckets_total = 2 /\ sessions[s].bucket_penalty = 137

\* Amounts of the round trip: the least, the usual ones and the whole wallet
RoundTripAmounts == {1, 750, 1000, 2000}

SlashAmounts == {1, 750, 751, 1500}

\* What C30 says of the position and of the accounts the call
\* slash_and_pay(p, authority, payout, dest) names, at the current state: it
\* succeeds only if payout <= reserved, takes payout off reserved and off
\* total and so leaves total - reserved as it was, debits the custody account
\* by payout, credits dest by payout, and leaves every other token account
\* and every other position as they were.
SlashAndPayHolds(p, authority, payout_amount, dest) ==
    LET r == slash_and_pay(St, p, authority, authority, payout_amount, dest)
        position == positions[p]
        after == r.st.pos[p]
    IN  r.err = "Ok" =>
            /\ payout_amount <= position.reserved
            /\ after.reserved = position.reserved - payout_amount
            /\ after.total = position.total - payout_amount
            /\ after.total - after.reserved = position.total - position.reserved
            /\ r.st.bal[Vault(p)] = bal[Vault(p)] - payout_amount
            /\ r.st.bal[dest] = bal[dest] + payout_amount
            /\ \A a \in TokenAccounts \ {Vault(p), dest} : r.st.bal[a] = bal[a]
            /\ \A q \in PosIds \ {p} : r.st.pos[q] = positions[q]

\* A successful slash_and_pay(p, authority, payout, dest) leaves the token
\* account of the position's provider as it was
ProviderUnpaid(p, authority, payout_amount, dest) ==
    LET r == slash_and_pay(St, p, authority, authority, payout_amount, dest)
        w == Wallet(positions[p].provider)
    IN  r.err = "Ok" => r.st.bal[w] = bal[w]

\* C30: every successful slash_and_pay, whoever signs it and whatever
\* destination it names, had payout <= reserved, decreases reserved and total
\* by exactly payout and leaves total - reserved unchanged, moves exactly
\* payout from the custody account to the destination, and pays nothing to
\* the position's provider.
C30_SlashAndPay ==
    \A p \in PosIds, authority \in Callers, payout_amount \in SlashAmounts,
       k \in Keys :
        /\ SlashAndPayHolds(p, authority, payout_amount, Wallet(k))
        /\ ProviderUnpaid(p, authority, payout_amount, Wallet(k))

\* The same, of the accounts the call names: nothing moves but payout from
\* custody to the named destination, so the provider's token account is
\* credited only when the call names it as the destination.
C30_SlashOnNamedAccounts ==
    \A p \in PosIds, authority \in Callers, payout_amount \in SlashAmounts,
       k \in Keys :
        /\ SlashAndPayHolds(p, authority, payout_amount, Wallet(k))
        /\ k # positions[p].provider
             => ProviderUnpaid(p, authority, payout_amount, Wallet(k))

\* A slash has paid 750 out of the reserve of p1's position to another key's
\* token account
C30_NamedWitness ==
    /\ positions[<<"p1", 1>>].total = 250 /\ positions[<<"p1", 1>>].reserved = 0
    /\ bal[Vault(<<"p1", 1>>)] = 250
    /\ bal[Wallet("p1")] = 1000
    /\ \E k \in Keys \ {"p1"} : bal[Wallet(k)] = 750

\* ------------------------------------------------------------------------
\* C31 .. C40
\* ------------------------------------------------------------------------
\* The bid coverage in unbounded arithmetic
ExactBidCoverage(cfg) ==
    LET premium_factor == (cfg.premium_bps * 50) \div 10000
        latency_strictness ==
            IF cfg.latency_target_ms > 0 THEN 10000 \div cfg.latency_target_ms ELSE 100
        bandwidth_strictness == Min(cfg.bandwidth_min_chunks, 1000)
        sla_factor == ((latency_strictness + bandwidth_strictness) * 50) \div 10000
    IN  FloorBps(cfg.max_spend, premium_factor + sla_factor)

\* Every successful open_session stores the coverages, the reserve, the
\* deadline and the window as unbounded arithmetic gives them, each within
\* the word
OpenStoresExact ==
    \A s \in SessIds, provider \in Providers, cfg \in OpenConfigs, slot \in {now, now + 1} :
        LET r == open_session(St, s, provider, cfg, slot)
            after == r.st.sess[s]
            base == ClaimedCoverage(cfg.max_spend, cfg.price_per_chunk)
            bid == IF cfg.is_bid THEN ExactBidCoverage(cfg) ELSE 0
        IN  r.err = "Ok" =>
                /\ after.base_coverage_p = base
                /\ after.bid_coverage_p = bid
                /\ after.reserve_r = FloorBps(base, 15000) + FloorBps(bid, 15000)
                /\ after.reserve_r <= WordMax
                /\ after.start_deadline_slot - cfg.start_deadline_slots = slot
                /\ cfg.is_bid =>
                     /\ after.sla_window_start_slot - cfg.sla_warmup_slots = slot
                     /\ after.sla_window_end_slot - cfg.sla_window_slots
                          = after.sla_window_start_slot

\* The termination deadline a first report stored is the slot of the report
\* plus the session's termination window, not a clamped value
DeadlineExact ==
    \A s \in SessIds :
        sessions[s].first_violation_slot > 0 =>
            sessions[s].terminate_deadline_slot - sessions[s].terminate_window_slots
                = sessions[s].first_violation_slot

\* C31: arithmetic is fail-closed: no successful open_session stores a
\* coverage, reserve or deadline that differs from its value in unbounded
\* arithmetic because a product or sum left the word, and no
\* report_bucket_failure stores a clamped termination deadline.
C31_FailClosed == OpenStoresExact /\ DeadlineExact

\* C32: assert_conf accepts exactly when price > 0 and
\* floor(conf * 10000 / price) <= max_conf_ratio_bps, that is when
\* conf * 10000 < (max_conf_ratio_bps + 1) * price: a ratio equal to the
\* ceiling passes, a ratio above it is rejected with ConfidenceTooWide, a zero
\* or negative price is rejected whatever the confidence, and zero confidence
\* with a positive price passes.
C32_AssertConf ==
    quote.result # "None" =>
        LET within == quote.conf * 10000 < (quote.max_conf_ratio_bps + 1) * quote.price
        IN  /\ quote.result = "Ok" <=> (quote.price > 0 /\ within)
            /\ (quote.price > 0 /\ ~within) => quote.result = "ConfidenceTooWide"
            /\ quote.price <= 0 => quote.result # "Ok"
            /\ (quote.price > 0 /\ quote.conf = 0) => quote.result = "Ok"

\* A price whose ratio equals the ceiling (100 * 10000 / 10000 = 100) has
\* been accepted
C32_Witness ==
    /\ quote.result = "Ok"
    /\ quote.price = 10000 /\ quote.conf = 100 /\ quote.max_conf_ratio_bps = 100

\* A price whose ratio is one above the ceiling has been rejected
C32_RejectedWitness ==
    /\ quote.result = "ConfidenceTooWide"
    /\ quote.price = 10000 /\ quote.conf = 101 /\ quote.max_conf_ratio_bps = 100

\* In Spec one session exists and every reserve is taken on the one position
\* of its provider, so that position's reserved amount is what the session
\* has reserved and not yet released or had slashed.
StillReserved(s) == positions[<<sessions[s].provider, sessions[s].mode_id>>].reserved

\* C33: when a session is Closed or Claimed, the amounts released and
\* slashed for it add up to its reserve: nothing stays reserved for it on its
\* provider's position, by whichever path it finished.
C33_ReserveUnwound ==
    \A s \in MainSessions :
        sessions[s].state \in TerminalStates => StillReserved(s) = 0

\* The reserved amount a successful call r took off position p
Unwound(r, p) == positions[p].reserved - r.st.pos[p].reserved

\* Every path but claim_stall unwinds the whole reserve of an acknowledged
\* session on the position the call names, and nothing for a session never
\* acknowledged; claim_stall slashes min(base coverage, reserve) and releases
\* nothing.
C33_UnwoundButForStall ==
    \A s \in MainSessions, p \in PosIds, signer \in Callers, k \in Keys :
        LET session == sessions[s]
            whole == IF session.acked THEN session.reserve_r ELSE 0
            fc == finalize_close(St, s, p, Wallet(k))
            cf == claim_sla_failure(St, s, signer, p, Wallet(k))
            tc == terminate_for_cause(St, s, signer, p, Wallet(k), now)
            ss == settle_sla(St, s, p, Wallet(k), Wallet(k), now)
            cs == claim_stall(St, s, signer, p, Wallet(k), now)
            cn == claim_no_start(St, s, signer, Wallet(k), now)
        IN  /\ fc.err = "Ok" => Unwound(fc, p) = whole
            /\ cf.err = "Ok" => Unwound(cf, p) = whole
            /\ tc.err = "Ok" => Unwound(tc, p) = whole
            /\ ss.err = "Ok" => Unwound(ss, p) = whole
            /\ cn.err = "Ok" => cn.st.pos = positions
            /\ cs.err = "Ok" =>
                 Unwound(cs, p) = Min(session.base_coverage_p, session.reserve_r)

\* A stalled session has been claimed and 250 of its reserve of 750 are
\* still reserved
C33_StallWitness ==
    \E s \in MainSessions :
        /\ sessions[s].state = "Claimed" /\ sessions[s].reserve_r = 750
        /\ StillReserved(s) = 250

FinalSlaStatuses == {"Met", "Failed", "TerminatedForCause"}

\* The step is a successful terminate_for_cause or settle_sla on session s
TerminateOrSettleStep(s) ==
    \/ \E signer \in Callers, p \in PosIds, k \in Keys :
        LET r == terminate_for_cause(St, s, signer, p, Wallet(k), now)
        IN  r.err = "Ok" /\ sessions' = r.st.sess
    \/ \E p \in PosIds, k1 \in Keys, k2 \in Keys :
        LET r == settle_sla(St, s, p, Wallet(k1), Wallet(k2), now)
        IN  r.err = "Ok" /\ sessions' = r.st.sess

\* The step is a successful submit_latency_attestation on session s
AttestationStep(s) ==
    \E verifier \in Verifiers \cup Outsiders, rtt \in RttValues, mwe \in {0, MaxSlot} :
        LET r == submit_latency_attestation(St, s, verifier, rtt, 0, mwe)
        IN  r.err = "Ok" /\ sessions' = r.st.sess

\* A step keeps a final status, and moves a status away from Violated only
\* by terminate_for_cause or settle_sla
StatusKept(s) ==
    /\ sessions[s].sla_status \in FinalSlaStatuses
         => sessions'[s].sla_status = sessions[s].sla_status
    /\ (sessions[s].sla_status = "Violated" /\ sessions'[s].sla_status # "Violated")
         => TerminateOrSettleStep(s)

\* C34: once the SLA status of a session is Met, Failed or TerminatedForCause
\* no step changes it (a Met status never becomes Failed), and a status of
\* Violated changes only by terminate_for_cause or settle_sla.
C34_StatusFinal == [][\A s \in SessIds : StatusKept(s)]_vars

\* The same of every step that is no latency attestation
C34_FinalButForAttestation ==
    [][\A s \in SessIds : AttestationStep(s) \/ StatusKept(s)]_vars

\* An attestation above the latency target has been accepted for a session
\* whose provider then has the Failed status, after the window's end
C34_FailedWitness ==
    \E s \in SessIds :
        /\ sessions[s].sla_status = "Failed" /\ sessions[s].latency_attested
        /\ sessions[s].buckets_failed = 0
        /\ now > sessions[s].sla_window_end_slot

\* A status of Met is kept by every step
C34_MetKept ==
    [][\A s \in SessIds : sessions[s].sla_status = "Met" => sessions'[s].sla_status = "Met"]_vars

\* What a successful call r credited to token account w
Received(r, w) == r.st.bal[w] - bal[w]

\* C35: the escrow of a session never pays its provider more than max_spend
\* in all: total_spent, the sum the permits have paid so far, stays within
\* max_spend after every redeem_permit, and what settle_sla then pays the
\* provider from the escrow, added to total_spent, stays within max_spend,
\* however much the user funded.
C35_ProviderPaidWithinMaxSpend ==
    \A s \in MainSessions :
        LET session == sessions[s]
            w == Wallet(session.provider)
        IN  /\ session.total_spent <= session.max_spend
            /\ \A p \in PosIds, k \in Keys :
                LET r == settle_sla(St, s, p, w, Wallet(k), now)
                IN  (r.err = "Ok" /\ k # session.provider) =>
                        session.total_spent + Received(r, w) <= session.max_spend

\* The permits alone keep within max_spend
C35_PermitsWithinMaxSpend ==
    \A s \in MainSessions :
        /\ sessions[s].total_spent <= sessions[s].max_spend
        /\ \A signer \in Providers, permit_nonce \in PermitNonces, amount \in PermitAmounts,
              expiry_slot \in ExpirySlots :
            \A ix0 \in PermitIxs(s, sessions[s].provider, permit_nonce, amount, expiry_slot) :
                LET r == redeem_permit(St, s, signer, permit_nonce, amount, expiry_slot,
                                       ix0, Wallet(sessions[s].provider), now)
                IN  r.err = "Ok" =>
                        /\ Received(r, Wallet(sessions[s].provider)) = amount
                        /\ sessions[s].total_spent + amount <= sessions[s].max_spend

\* A session of max_spend 10000 was funded with 20000 and settled as Met: the
\* escrow is empty and the provider, who started with 2000 and deposited
\* 1000, holds more than 1000 + 10000
C35_OverpaidWitness ==
    \E s \in MainSessions :
        /\ sessions[s].state = "Closed" /\ sessions[s].sla_status = "Met"
        /\ sessions[s].max_spend = 10000
        /\ bal[Escrow(s)] = 0
        /\ bal[Wallet(sessions[s].provider)] = 1000 + 20000

\* The position of the provider and mode of session s
OwnPosition(s) == <<sessions[s].provider, sessions[s].mode_id>>

\* C36: no successful instruction on a session changes the total or the
\* reserved amount of a position other than that of the session's provider
\* and mode, whichever position the caller supplies.
C36_OnlyOwnPosition ==
    \A s \in SessIds :
        SessionExists(St, s) =>
            AllSessionCalls(s, LAMBDA r :
                r.err = "Ok" =>
                    \A q \in PosIds \ {OwnPosition(s)} : r.st.pos[q] = positions[q])

\* No successful instruction on a session changes a position other than the
\* one the call names
C36_OnlyNamedPosition ==
    \A s \in SessIds, signer \in Callers, p \in PosIds, k \in Keys :
        LET Kept(r) == r.err = "Ok" => \A q \in PosIds \ {p} : r.st.pos[q] = positions[q]
        IN  /\ Kept(ack_start(St, s, signer, p, now))
            /\ Kept(finalize_close(St, s, p, Wallet(k)))
            /\ Kept(claim_stall(St, s, signer, p, Wallet(k), now))
            /\ Kept(claim_sla_failure(St, s, signer, p, Wallet(k)))
            /\ Kept(terminate_for_cause(St, s, signer, p, Wallet(k), now))
            /\ Kept(settle_sla(St, s, p, Wallet(k), Wallet(k), now))

\* A session of provider p1 is Active with its reserve taken on p2's position
C36_NamedWitness ==
    \E s \in SessIds :
        /\ sessions[s].state = "Active" /\ sessions[s].provider = "p1"
        /\ positions[<<"p2", 1>>].reserved = sessions[s].reserve_r
        /\ positions[<<"p1", 1>>].reserved = 0

\* C37: whenever snapshot_window_start succeeds on a session (a bid session,
\* Active, at or after the window's start), the session it leaves rejects
\* every further snapshot_window_start with WindowAlreadySnapshotted, at the
\* same slot and at any later one, whatever the next permit sequence was.
C37_SnapshotOnce ==
    \A s \in SessIds :
        LET first == snapshot_window_start(St, s, now)
        IN  first.err = "Ok" =>
                /\ sessions[s].is_bid /\ sessions[s].state = "Active"
                /\ now >= sessions[s].sla_window_start_slot
                /\ \A later \in now..MaxSlot :
                    snapshot_window_start(first.st, s, later).err
                        = "WindowAlreadySnapshotted"

\* A recorded window-start sequence other than 0 is final: further snapshots
\* fail and no step changes it
SnapshotKept ==
    \A s \in SessIds :
        sessions[s].nonce_at_window_start > 0 =>
            /\ snapshot_window_start(St, s, now).err = "WindowAlreadySnapshotted"
                 \/ sessions[s].state # "Active"
            /\ sessions'[s].nonce_at_window_start = sessions[s].nonce_at_window_start

C37_NonZeroSnapshotKept == [][SnapshotKept]_vars

\* A snapshot taken after a permit was redeemed has recorded sequence 1
C37_NonZeroWitness ==
    \E s \in SessIds :
        sessions[s].nonce_at_window_start = 1 /\ sessions[s].next_permit_nonce = 1

\* The accrued penalty of every bid session is
\* min(penalty per bucket * failed buckets, reserve)
AccruedIsCapped ==
    \A s \in SessIds :
        sessions[s].is_bid =>
            /\ sessions[s].penalty_accrued
                 = Min(sessions[s].bucket_penalty * sessions[s].buckets_failed,
                       sessions[s].reserve_r)
            /\ sessions[s].penalty_accrued <= sessions[s].reserve_r

\* What a successful call r took off the total of position p and out of its
\* custody account is the accrued penalty of session s
SlashedAccrued(r, s, p) ==
    r.err = "Ok" =>
        /\ positions[p].total - r.st.pos[p].total = sessions[s].penalty_accrued
        /\ bal[Vault(p)] - r.st.bal[Vault(p)] = sessions[s].penalty_accrued

\* C38: in every reachable state the accrued penalty of a bid session is
\* min(penalty per bucket * buckets_failed, reserve), hence at most the
\* reserve, and every successful terminate_for_cause and every settle_sla of
\* a session with failed buckets slashes exactly the accrued penalty.
C38_AccruedPenalty ==
    /\ AccruedIsCapped
    /\ \A s \in MainSessions, p \in PosIds, signer \in Callers, k \in Keys :
        /\ SlashedAccrued(terminate_for_cause(St, s, signer, p, Wallet(k), now), s, p)
        /\ sessions[s].buckets_failed > 0
             => SlashedAccrued(settle_sla(St, s, p, Wallet("p1"), Wallet(k), now), s, p)

\* Two failed buckets of penalty 825 each accrued no more than the reserve of
\* 825, and settle_sla slashed it: the position of 1000 is left with 175
C38_Witness ==
    \E s \in MainSessions :
        /\ sessions[s].sla_status = "Failed" /\ sessions[s].state = "Claimed"
        /\ sessions[s].bucket_penalty = 825 /\ sessions[s].buckets_failed = 2
        /\ sessions[s].penalty_accrued = 825 /\ sessions[s].reserve_r = 825
        /\ positions[<<"p1", 1>>].total = 175 /\ positions[<<"p1", 1>>].reserved = 0

\* The same accrual slashed by terminate_for_cause
C38_TerminatedWitness ==
    \E s \in MainSessions :
        /\ sessions[s].terminated_for_cause
        /\ sessions[s].bucket_penalty = 825 /\ sessions[s].buckets_failed = 2
        /\ sessions[s].penalty_accrued = 825
        /\ positions[<<"p1", 1>>].total = 175

\* report_bucket_failure of bucket idx with the given reason on session s in
\* state st, by the session's verifier with the verifier's signature over the
\* report in the preceding instruction
SignedReport(st, s, idx, reason) ==
    LET session == st.sess[s]
        start == session.sla_window_start_slot + idx * session.bucket_slots
    IN  report_bucket_failure(st, s, session.verifier_pubkey, idx, start, reason,
            SigIx(session.verifier_pubkey, BucketMessage(s, idx, start, reason), {}, {}),
            now)

\* C39: two reports accepted one after the other leave the same accumulated
\* failure reason as the same two reports with their reasons exchanged, for
\* every pair of buckets and every pair of reasons a report may carry.
C39_OrderIndependent ==
    \A s \in MainSessions, i \in BucketIndexes, j \in BucketIndexes,
       a \in SlaFailureReasons, b \in SlaFailureReasons :
        LET a1 == SignedReport(St, s, i, a)
            ab == SignedReport(a1.st, s, j, b)
            b1 == SignedReport(St, s, i, b)
            ba == SignedReport(b1.st, s, j, a)
        IN  (a1.err = "Ok" /\ ab.err = "Ok" /\ b1.err = "Ok" /\ ba.err = "Ok") =>
                ab.st.sess[s].sla_failure_reason = ba.st.sess[s].sla_failure_reason

\* combine_failure_reason without PrivacyMode is commutative and associative
C39_WithoutPrivacyMode ==
    \A a \in SlaFailureReasons \ {"PrivacyMode"}, b \in SlaFailureReasons \ {"PrivacyMode"},
       c \in SlaFailureReasons \ {"PrivacyMode"} :
        /\ combine_failure_reason(a, b) = combine_failure_reason(b, a)
        /\ combine_failure_reason(combine_failure_reason(a, b), c)
             = combine_failure_reason(a, combine_failure_reason(b, c))

\* Two buckets were reported, Latency first and PrivacyMode second, and the
\* accumulated reason is Latency
C39_OrderWitness ==
    \E s \in MainSessions :
        /\ sessions[s].buckets_failed = 2
        /\ sessions[s].sla_failure_reason = "Latency"

\* Some call of finalize_close on session s succeeds at the current state,
\* whichever position and destination it would have to name
CanFinalize(s) ==
    \E p \in PosIds, k \in Keys : finalize_close(St, s, p, Wallet(k)).err = "Ok"

\* C40: in every reachable state every session in state Closing can be
\* finalized: finalize_close, called with the position of the session's
\* provider and the user's token account, succeeds.
C40_ClosingCanFinalize ==
    \A s \in SessIds :
        sessions[s].state = "Closing" =>
            finalize_close(St, s, OwnPosition(s), Wallet(sessions[s].user)).err = "Ok"

\* Even with any position and any destination
C40_ClosingCanFinalizeSomehow ==
    \A s \in SessIds : sessions[s].state = "Closing" => CanFinalize(s)

\* Under weak fairness of finalize_close every Closing session is
\* eventually Closed
C40_ClosingLeadsToClosed ==
    \A s \in SessIds : (sessions[s].state = "Closing") ~> (sessions[s].state = "Closed")

\* An acknowledged session is Closing while nothing is reserved on any
\* position: no finalize_close can release its reserve
C40_StuckWitness ==
    \E s \in SessIds :
        /\ sessions[s].state = "Closing" /\ sessions[s].acked
        /\ \A p \in PosIds : positions[p].reserved < sessions[s].reserve_r
        /\ ~CanFinalize(s)

\* Without direct calls into the vault an acknowledged Closing session can
\* be finalized on the position its reserve was taken on
C40_AckedCanFinalizeSomehow ==
    \A s \in SessIds :
        (sessions[s].state = "Closing" /\ sessions[s].acked) => CanFinalize(s)

====
